---- MODULE Spec2Model ----
(***************************************************************************)
(* A model of sortify-rs: the timestamp resolver (src/src/exif.rs), the    *)
(* filename generator (src/src/naming.rs) and the two-phase batch          *)
(* orchestrator (src/src/file_ops.rs).                                     *)
(*                                                                         *)
(* Strings are sequences of one-character strings, so that formatting,     *)
(* padding, searching and parsing are computed and not assumed.            *)
(***************************************************************************)
EXTENDS Integers, Sequences, FiniteSets, TLC

VARIABLES
    \* ---- FilenameGenerator::generate_filename, applied to drawn inputs
    dt, milliseconds, extension, existing_files, final_path,
    \* ---- ExifProcessor::extract_best_timestamp, applied to drawn bags
    metadata, resolved,
    \* ---- ExifProcessor::parse_timestamp_with_subseconds, applied to drawn strings
    timestamp_str, parsed,
    \* ---- FileProcessor::process_files: the input list, the mode, the phase
    \* of the call, the run, its twin, and the I/O faults met so far
    files, run_mode, pc, run, twin, faults

namingVars == <<dt, milliseconds, extension, existing_files, final_path>>
resolveVars == <<metadata, resolved>>
parseVars == <<timestamp_str, parsed>>
pipelineVars == <<files, run_mode, pc, run, twin, faults>>
vars == <<namingVars, resolveVars, parseVars, pipelineVars>>

\* The value of a variable that the specification at hand does not use.
Idle == "idle"
\* Option<T>: None is the empty sequence and Some(v) the sequence of v alone.
None == <<>>
Some(v) == <<v>>
\* no result yet
Pending == [pending |-> TRUE]

(***************************************************************************)
(* Bounds                                                                  *)
(***************************************************************************)
\* longest claimed list handed to generate_filename in SpecNaming
MaxClaimed == 3
\* longest input list of a batch
MaxFiles == 2
\* most I/O faults (a failed hash read, mkdir, rename, copy, symlink or delete) in a batch
MaxFaults == 1
\* longest input list of a batch of SpecRerun
MaxTied == 3

(***************************************************************************)
(* Characters and strings                                                  *)
(***************************************************************************)
DigitChars == <<"0", "1", "2", "3", "4", "5", "6", "7", "8", "9">>

Range(s) == {s[i] : i \in DOMAIN s}

IsDigit(c) == c \in Range(DigitChars)

\* the value of an ASCII digit
DigitVal(c) == (CHOOSE i \in DOMAIN DigitChars : DigitChars[i] = c) - 1

AllDigits(s) == \A i \in DOMAIN s : IsDigit(s[i])

\* char::to_lowercase on the ASCII letters
ToLowerChar(c) ==
    LET UpperChars == <<"A", "B", "C", "D", "E", "F", "G", "H", "I", "J", "K", "L", "M", "N", "O", "P", "Q", "R", "S", "T", "U", "V", "W", "X", "Y", "Z">>
        LowerChars == <<"a", "b", "c", "d", "e", "f", "g", "h", "i", "j", "k", "l", "m", "n", "o", "p", "q", "r", "s", "t", "u", "v", "w", "x", "y", "z">>
    IN  IF c \in Range(UpperChars)
        THEN LowerChars[CHOOSE i \in DOMAIN UpperChars : UpperChars[i] = c]
        ELSE c

\* str::to_lowercase
ToLower(s) == [i \in DOMAIN s |-> ToLowerChar(s[i])]

\* str::contains(char)
ContainsChar(s, c) == \E i \in DOMAIN s : s[i] = c

\* str::rfind(char): 0 when the character is absent
RFindChar(s, c) == IF ContainsChar(s, c) THEN CHOOSE i \in DOMAIN s : s[i] = c /\ \A j \in (i + 1)..Len(s) : s[j] # c ELSE 0

\* str::contains(&str)
ContainsStr(s, sub) ==
    \E i \in 0..(Len(s) - Len(sub)) : \A j \in DOMAIN sub : s[i + j] = sub[j]

\* the decimal digits of a natural number, most significant first
RECURSIVE NatDigits(_)
NatDigits(n) == IF n < 10 THEN <<DigitChars[n + 1]>> ELSE NatDigits(n \div 10) \o <<DigitChars[(n % 10) + 1]>>

\* format!("{}", n) of a signed integer
FmtInt(n) == IF n < 0 THEN <<"-">> \o NatDigits(0 - n) ELSE NatDigits(n)

RECURSIVE Repeat(_, _)
Repeat(c, n) == IF n <= 0 THEN <<>> ELSE <<c>> \o Repeat(c, n - 1)

\* format!("{:0w}", n) of an integer: zeros on the left up to width w, never cut.
\* For a negative number Rust puts the sign first and pads after it.
FmtZeroPad(n, w) ==
    IF n < 0
    THEN <<"-">> \o Repeat("0", w - 1 - Len(NatDigits(0 - n))) \o NatDigits(0 - n)
    ELSE Repeat("0", w - Len(NatDigits(n))) \o NatDigits(n)

\* format!("{:0<w}", s) of a string: zeros on the right up to width w, never cut
FmtPadRight0(s, w) == s \o Repeat("0", w - Len(s))

(***************************************************************************)
(* FilenameGenerator (src/src/naming.rs)                                   *)
(***************************************************************************)
\* A chrono DateTime<Utc>, by the parts the program reads from it.
DateTime(y, mo, d, h, mi, s) == [year |-> y, month |-> mo, day |-> d, hour |-> h, minute |-> mi, second |-> s]

month_names ==
    << <<"J", "a", "n">>, <<"F", "e", "b">>, <<"M", "a", "r">>, <<"A", "p", "r">>,
       <<"M", "a", "y">>, <<"J", "u", "n">>, <<"J", "u", "l">>, <<"A", "u", "g">>,
       <<"S", "e", "p">>, <<"O", "c", "t">>, <<"N", "o", "v">>, <<"D", "e", "c">> >>

\* "{}/{:02}-{}/": the directory part of every generated path
dir_prefix(d) ==
    FmtInt(d.year) \o <<"/">> \o FmtZeroPad(d.month, 2) \o <<"-">> \o month_names[d.month] \o <<"/">>

\* "{}{:02}{:02}_{:02}{:02}{:02}.{:03}": the file name up to the millisecond field
stamp(d, ms) ==
    FmtInt(d.year) \o FmtZeroPad(d.month, 2) \o FmtZeroPad(d.day, 2) \o <<"_">>
        \o FmtZeroPad(d.hour, 2) \o FmtZeroPad(d.minute, 2) \o FmtZeroPad(d.second, 2)
        \o <<".">> \o FmtZeroPad(ms, 3)

\* the unsuffixed path
full_path(d, ms, ext) == dir_prefix(d) \o stamp(d, ms) \o <<".">> \o ext

\* the path with the tie-break suffix -counter
path_with_suffix(d, ms, ext, counter) ==
    dir_prefix(d) \o stamp(d, ms) \o <<"-">> \o FmtInt(counter) \o <<".">> \o ext

\* while existing_files.contains(&final_path) { final_path = ...-counter...; counter += 1 }
RECURSIVE tie_break_loop(_, _, _, _, _, _)
tie_break_loop(d, ms, ext, existing, path, counter) ==
    IF path \in Range(existing)
    THEN tie_break_loop(d, ms, ext, existing, path_with_suffix(d, ms, ext, counter), counter + 1)
    ELSE path

\* A slip of the loop: the suffix -2 is given without looking at the list again.
generate_filename_once(d, ms, ext, existing) ==
    IF full_path(d, ms, ext) \in Range(existing)
    THEN path_with_suffix(d, ms, ext, 2)
    ELSE full_path(d, ms, ext)

generate_filename(d, ms, ext, existing) ==
    tie_break_loop(d, ms, ext, existing, full_path(d, ms, ext), 2)

(***************************************************************************)
(* SpecNaming: generate_filename on drawn inputs, and its caller's push    *)
(***************************************************************************)
\* "jpg", "mov", and the empty extension of a path without one
NamingExtensions == {<<"j", "p", "g">>, <<"m", "o", "v">>, <<>>}

NamingInstants ==
    { DateTime(2025, 9, 24, 8, 20, 49), DateTime(2024, 12, 31, 23, 59, 59),
      DateTime(99, 1, 2, 3, 4, 5), DateTime(2025, 9, 24, 8, 20, 50) }

NamingMillis == {0, 7, 680, 999}

\* the names a claimed list is drawn from: the names of the instant at hand and
\* one name of another instant
NamePool(d, ms, ext) ==
    { full_path(d, ms, ext), path_with_suffix(d, ms, ext, 2), path_with_suffix(d, ms, ext, 3),
      path_with_suffix(d, ms, ext, 4), full_path(DateTime(2025, 9, 24, 8, 20, 51), ms, ext) }

SeqsUpTo(S, n) == UNION {[1..k -> S] : k \in 0..n}

InitNaming ==
    /\ dt \in NamingInstants
    /\ milliseconds \in NamingMillis
    /\ extension \in NamingExtensions
    /\ existing_files \in SeqsUpTo(NamePool(dt, milliseconds, extension), MaxClaimed)
    /\ final_path = None
    /\ metadata = Idle
    /\ resolved = Idle
    /\ timestamp_str = Idle /\ parsed = Idle
    /\ files = Idle /\ run_mode = Idle /\ pc = Idle /\ run = Idle /\ twin = Idle /\ faults = Idle

\* let final_filename = self.filename_generator.generate_filename(.., existing_files)
GenerateFilename ==
    /\ final_path = None
    /\ final_path' = Some(generate_filename(dt, milliseconds, extension, existing_files))
    /\ UNCHANGED <<dt, milliseconds, extension, existing_files, resolveVars, parseVars, pipelineVars>>

\* existing_files.push(final_filename): the caller claims the winning name
PushClaimed ==
    /\ final_path # None
    /\ Len(existing_files) < MaxClaimed + 1
    /\ existing_files' = Append(existing_files, final_path[1])
    /\ final_path' = None
    /\ UNCHANGED <<dt, milliseconds, extension, resolveVars, parseVars, pipelineVars>>

NextNaming == GenerateFilename \/ PushClaimed

SpecNaming == InitNaming /\ [][NextNaming]_vars

(***************************************************************************)
(* Timestamp strings (src/src/exif.rs, parse_timestamp_with_subseconds)    *)
(***************************************************************************)
Err == [ok |-> FALSE]
Ok(d, ms) == [ok |-> TRUE, dt |-> d, ms |-> ms]

WhiteSpace == {" ", "\t", "\n"}

RECURSIVE TrimStart(_)
TrimStart(s) == IF s # <<>> /\ Head(s) \in WhiteSpace THEN TrimStart(Tail(s)) ELSE s

RECURSIVE TrimEnd(_)
TrimEnd(s) == IF s # <<>> /\ s[Len(s)] \in WhiteSpace THEN TrimEnd(SubSeq(s, 1, Len(s) - 1)) ELSE s

\* str::trim_matches(c)
RECURSIVE TrimMatches(_, _)
TrimMatches(s, c) ==
    IF s # <<>> /\ Head(s) = c THEN TrimMatches(Tail(s), c)
    ELSE IF s # <<>> /\ s[Len(s)] = c THEN TrimMatches(SubSeq(s, 1, Len(s) - 1), c)
    ELSE s

\* the value of a string of digits
RECURSIVE DigitsValue(_)
DigitsValue(s) == IF s = <<>> THEN 0 ELSE DigitsValue(SubSeq(s, 1, Len(s) - 1)) * 10 + DigitVal(s[Len(s)])

\* str::parse::<u16>: an optional '+', then at least one digit, at most 65535
ParseU16(s) ==
    LET digits == IF s # <<>> /\ Head(s) = "+" THEN Tail(s) ELSE s
    IN  IF digits = <<>> \/ ~AllDigits(digits) \/ Len(digits) > 9 THEN [ok |-> FALSE]
        ELSE IF DigitsValue(digits) > 65535 THEN [ok |-> FALSE]
        ELSE [ok |-> TRUE, val |-> DigitsValue(digits)]

\* chrono's scan::number(s, 1, max): the longest run of 1..max leading digits
LeadingDigits(s, max) ==
    LET ns == {n \in 0..Len(s) : n <= max /\ \A i \in 1..n : IsDigit(s[i])}
    IN  CHOOSE n \in ns : \A m \in ns : m <= n

\* the widest number the model reads; a wider one is out of chrono's year range
MaxNumberDigits == 9

\* One item of a chrono format string applied to the state [ok, s, vals] of the
\* parse: a numeric item skips leading whitespace and reads up to w digits (a
\* signed one, %Y, any number of digits after an explicit sign), a space item
\* skips whitespace, a literal must be the next character.
ParseItem(st, item) ==
    IF ~st.ok THEN st
    ELSE IF item.k = "space" THEN [st EXCEPT !.s = TrimStart(st.s)]
    ELSE IF item.k = "lit" THEN
        IF st.s # <<>> /\ Head(st.s) = item.c THEN [st EXCEPT !.s = Tail(st.s)]
        ELSE [st EXCEPT !.ok = FALSE]
    ELSE
        LET s0 == TrimStart(st.s)
            sign == IF item.signed /\ s0 # <<>> /\ Head(s0) \in {"+", "-"} THEN Head(s0) ELSE ""
            s1 == IF sign = "" THEN s0 ELSE Tail(s0)
            n == LeadingDigits(s1, IF sign = "" THEN item.w ELSE MaxNumberDigits + 1)
            v == DigitsValue(SubSeq(s1, 1, n))
        IN  IF n = 0 \/ n > MaxNumberDigits THEN [st EXCEPT !.ok = FALSE]
            ELSE [ok |-> TRUE, s |-> SubSeq(s1, n + 1, Len(s1)),
                  vals |-> Append(st.vals, IF sign = "-" THEN 0 - v ELSE v)]

RECURSIVE ParseItems(_, _)
ParseItems(st, items) == IF items = <<>> THEN st ELSE ParseItems(ParseItem(st, Head(items)), Tail(items))

\* "%Y<sep>%m<sep>%d %H:%M:%S": numeric items (%Y is signed and 4 wide, the others
\* unsigned and 2 wide), literals and a space item
StrftimeItems(sep) ==
    LET Num(w, signed) == [k |-> "num", w |-> w, signed |-> signed]
        Lit(c) == [k |-> "lit", c |-> c]
        Space == [k |-> "space"]
    IN  << Num(4, TRUE), Lit(sep), Num(2, FALSE), Lit(sep), Num(2, FALSE), Space,
           Num(2, FALSE), Lit(":"), Num(2, FALSE), Lit(":"), Num(2, FALSE) >>

DaysInMonth(y, m) ==
    LET IsLeapYear == (y % 4 = 0 /\ y % 100 # 0) \/ y % 400 = 0
    IN  IF m = 2 THEN (IF IsLeapYear THEN 29 ELSE 28)
        ELSE IF m \in {4, 6, 9, 11} THEN 30 ELSE 31

\* chrono's range of years
MaxYear == 262142
MinYear == -262143

\* NaiveDateTime::parse_from_str(s, "%Y<sep>%m<sep>%d %H:%M:%S"): every item must
\* match, nothing may be left over, and the fields must name a real date and time.
\* A second of 60 is a leap second, which reads back as second 59.
to_naive_datetime(st) ==
    IF ~st.ok \/ st.s # <<>> THEN [ok |-> FALSE]
    ELSE LET v == st.vals
         IN  IF \/ v[1] < MinYear \/ v[1] > MaxYear
                \/ v[2] < 1 \/ v[2] > 12
                \/ v[3] < 1 \/ v[3] > DaysInMonth(v[1], v[2])
                \/ v[4] > 23 \/ v[5] > 59 \/ v[6] > 60
             THEN [ok |-> FALSE]
             ELSE [ok |-> TRUE, dt |-> DateTime(v[1], v[2], v[3], v[4], v[5], IF v[6] = 60 THEN 59 ELSE v[6])]

NaiveDateTime_parse_from_str(s, sep) ==
    to_naive_datetime(ParseItems([ok |-> TRUE, s |-> s, vals |-> <<>>], StrftimeItems(sep)))

\* the split of the trimmed string into the date-time part and the fraction
SplitSubseconds(s) ==
    IF ContainsChar(s, ".")
    THEN LET dot_pos == RFindChar(s, ".")
             after_dot == SubSeq(s, dot_pos + 1, Len(s))
             signs == {i \in DOMAIN after_dot : after_dot[i] \in {"+", "-"}}
         IN  IF signs # {}
             THEN LET tz_pos == CHOOSE i \in signs : \A j \in signs : i <= j
                  IN  [ok |-> TRUE, main |-> SubSeq(s, 1, dot_pos - 1), subsec |-> SubSeq(after_dot, 1, tz_pos - 1)]
             ELSE IF Cardinality({i \in DOMAIN s : s[i] = "."}) # 1 THEN [ok |-> FALSE]
             ELSE [ok |-> TRUE, main |-> SubSeq(s, 1, dot_pos - 1), subsec |-> after_dot]
    ELSE [ok |-> TRUE, main |-> s, subsec |-> <<"0">>]

\* A slip of the cut: the fraction is read whole, not cut to 3 characters.
SubsecMillis_uncut(subsec_part) == ParseU16(FmtPadRight0(TrimMatches(subsec_part, "\""), 3))

\* the fraction as milliseconds: cut to 3 characters, quotes removed, zeros added
\* on the right up to 3 characters, read as a u16
SubsecMillis(subsec_part) ==
    LET subsec_str == IF Len(subsec_part) > 3 THEN SubSeq(subsec_part, 1, 3) ELSE subsec_part
    IN  ParseU16(FmtPadRight0(TrimMatches(subsec_str, "\""), 3))

\* Ok((utc_dt, milliseconds)) when both the date-time part and the fraction parse
timestamp_of(naive_dt, milliseconds_) ==
    IF ~naive_dt.ok \/ ~milliseconds_.ok THEN Err ELSE Ok(naive_dt.dt, milliseconds_.val)

\* the date-time part is read with '-' separators when it holds a '-', with ':' otherwise
parse_parts(parts) ==
    IF ~parts.ok THEN Err
    ELSE timestamp_of(NaiveDateTime_parse_from_str(parts.main, IF ContainsChar(parts.main, "-") THEN "-" ELSE ":"),
                      SubsecMillis(parts.subsec))

parse_timestamp_with_subseconds(timestamp_str_) == parse_parts(SplitSubseconds(TrimEnd(TrimStart(timestamp_str_))))

(***************************************************************************)
(* SpecParse: parse_timestamp_with_subseconds on drawn strings             *)
(***************************************************************************)
\* date, ' ' or 'T', "08:20:49", fraction, offset: the dates 2025:09:24, 2025-09-24
\* and 2025:02:30 (no such day); no fraction, an empty one, .5, .680, .6809,
\* ."12" and .x7; no offset, +04:00 and -04:00
TimestampStrings ==
    LET dates == {<<"2", "0", "2", "5", ":", "0", "9", ":", "2", "4">>, <<"2", "0", "2", "5", "-", "0", "9", "-", "2", "4">>, <<"2", "0", "2", "5", ":", "0", "2", ":", "3", "0">>}
        fractions == {<<>>,
                      <<".">>,
                      <<".", "5">>,
                      <<".", "6", "8", "0">>,
                      <<".", "6", "8", "0", "9">>,
                      <<".", "\"", "1", "2", "\"">>,
                      <<".", "x", "7">>}
        offsets == {<<>>, <<"+", "0", "4", ":", "0", "0">>, <<"-", "0", "4", ":", "0", "0">>}
    IN  {d \o <<t>> \o <<"0", "8", ":", "2", "0", ":", "4", "9">> \o f \o z : d \in dates, t \in {" ", "T"}, f \in fractions, z \in offsets}

InitParse ==
    /\ timestamp_str \in TimestampStrings
    /\ parsed = Pending
    /\ dt = Idle /\ milliseconds = Idle /\ extension = Idle /\ existing_files = Idle /\ final_path = Idle
    /\ metadata = Idle /\ resolved = Idle
    /\ files = Idle /\ run_mode = Idle /\ pc = Idle /\ run = Idle /\ twin = Idle /\ faults = Idle

\* self.parse_timestamp_with_subseconds(timestamp_str)
ParseTimestampWithSubseconds ==
    /\ parsed = Pending
    /\ parsed' = parse_timestamp_with_subseconds(timestamp_str)
    /\ UNCHANGED <<timestamp_str, namingVars, resolveVars, pipelineVars>>

SpecParse == InitParse /\ [][ParseTimestampWithSubseconds]_vars


(***************************************************************************)
(* TimestampResolver (src/src/exif.rs, extract_best_timestamp)             *)
(* A metadata bag is a function from tag names to tag values.              *)
(***************************************************************************)
F_SubSecCreateDate == <<"S", "u", "b", "S", "e", "c", "C", "r", "e", "a", "t", "e", "D", "a", "t", "e">>
F_SubSecDateTimeOriginal == <<"S", "u", "b", "S", "e", "c", "D", "a", "t", "e", "T", "i", "m", "e", "O", "r", "i", "g", "i", "n", "a", "l">>
F_SubSecModifyDate == <<"S", "u", "b", "S", "e", "c", "M", "o", "d", "i", "f", "y", "D", "a", "t", "e">>
F_DateTimeOriginal == <<"D", "a", "t", "e", "T", "i", "m", "e", "O", "r", "i", "g", "i", "n", "a", "l">>
F_SubSecTimeOriginal == <<"S", "u", "b", "S", "e", "c", "T", "i", "m", "e", "O", "r", "i", "g", "i", "n", "a", "l">>
F_ModifyDate == <<"M", "o", "d", "i", "f", "y", "D", "a", "t", "e">>
F_SubSecTime == <<"S", "u", "b", "S", "e", "c", "T", "i", "m", "e">>
F_DateTimeDigitized == <<"D", "a", "t", "e", "T", "i", "m", "e", "D", "i", "g", "i", "t", "i", "z", "e", "d">>
F_SubSecTimeDigitized == <<"S", "u", "b", "S", "e", "c", "T", "i", "m", "e", "D", "i", "g", "i", "t", "i", "z", "e", "d">>
F_MediaCreateDate == <<"M", "e", "d", "i", "a", "C", "r", "e", "a", "t", "e", "D", "a", "t", "e">>
F_MediaModifyDate == <<"M", "e", "d", "i", "a", "M", "o", "d", "i", "f", "y", "D", "a", "t", "e">>
F_CreateDate == <<"C", "r", "e", "a", "t", "e", "D", "a", "t", "e">>

\* is_recent_timestamp: the value parses and its year is after 2024
is_recent_timestamp(timestamp_str_) ==
    \E r \in {parse_timestamp_with_subseconds(timestamp_str_)} : r.ok /\ r.dt.year > 2024

\* A slip of the file-system test: every "...Date" tag is taken for a file date.
IsFileSystemField_AnyDate(field) == ContainsStr(field, <<"D", "a", "t", "e">>)

\* field.contains("File")
IsFileSystemField(field) == ContainsStr(field, <<"F", "i", "l", "e">>)

pre_combined_fields == <<F_SubSecCreateDate, F_SubSecDateTimeOriginal, F_SubSecModifyDate>>

combinations ==
    << <<F_DateTimeOriginal, F_SubSecTimeOriginal>>, <<F_ModifyDate, F_SubSecTime>>,
       <<F_DateTimeDigitized, F_SubSecTimeDigitized>> >>

\* "DateTimeOriginal", "CreationDate", "Create Date", "MakerNotes:CreateDate",
\* "ModifyDate", "Modify Date", "MakerNotes:ModifyDate", "DateTimeDigitized"
fallback_fields ==
    << F_DateTimeOriginal,
       <<"C", "r", "e", "a", "t", "i", "o", "n", "D", "a", "t", "e">>,
       <<"C", "r", "e", "a", "t", "e", " ", "D", "a", "t", "e">>,
       <<"M", "a", "k", "e", "r", "N", "o", "t", "e", "s", ":", "C", "r", "e", "a", "t", "e", "D", "a", "t", "e">>,
       F_ModifyDate,
       <<"M", "o", "d", "i", "f", "y", " ", "D", "a", "t", "e">>,
       <<"M", "a", "k", "e", "r", "N", "o", "t", "e", "s", ":", "M", "o", "d", "i", "f", "y", "D", "a", "t", "e">>,
       F_DateTimeDigitized >>

\* "DateTimeOriginal", "CreationDate", "MediaCreateDate", "TrackCreateDate",
\* "Create Date", "MakerNotes:CreateDate", "MediaModifyDate", "TrackModifyDate",
\* "Modify Date", "MakerNotes:ModifyDate", "NikonDateTime", "ModifyDate"
video_timestamp_fields ==
    << F_DateTimeOriginal,
       <<"C", "r", "e", "a", "t", "i", "o", "n", "D", "a", "t", "e">>,
       F_MediaCreateDate,
       <<"T", "r", "a", "c", "k", "C", "r", "e", "a", "t", "e", "D", "a", "t", "e">>,
       <<"C", "r", "e", "a", "t", "e", " ", "D", "a", "t", "e">>,
       <<"M", "a", "k", "e", "r", "N", "o", "t", "e", "s", ":", "C", "r", "e", "a", "t", "e", "D", "a", "t", "e">>,
       F_MediaModifyDate,
       <<"T", "r", "a", "c", "k", "M", "o", "d", "i", "f", "y", "D", "a", "t", "e">>,
       <<"M", "o", "d", "i", "f", "y", " ", "D", "a", "t", "e">>,
       <<"M", "a", "k", "e", "r", "N", "o", "t", "e", "s", ":", "M", "o", "d", "i", "f", "y", "D", "a", "t", "e">>,
       <<"N", "i", "k", "o", "n", "D", "a", "t", "e", "T", "i", "m", "e">>,
       F_ModifyDate >>

\* if let Ok(..) = r { return r }: the first result when it is Ok, the rest otherwise
OrElse(r, rest) == IF r.ok THEN r ELSE rest

\* for field in pre_combined_fields: the first present field that parses
RECURSIVE scan_pre_combined(_, _)
scan_pre_combined(fields, md) ==
    IF fields = <<>> THEN Err
    ELSE OrElse(IF Head(fields) \in DOMAIN md THEN parse_timestamp_with_subseconds(md[Head(fields)]) ELSE Err,
                scan_pre_combined(Tail(fields), md))

\* format!("{}.{}", base_time, format!("{:0<3}", subsec_value))
combined_timestamp(base_time, subsec_value) == base_time \o <<".">> \o FmtPadRight0(subsec_value, 3)

\* for (base_field, subsec_field) in combinations: the first pair with both
\* fields present whose combination parses
RECURSIVE scan_combinations(_, _)
scan_combinations(pairs, md) ==
    IF pairs = <<>> THEN Err
    ELSE LET base_field == Head(pairs)[1]
             subsec_field == Head(pairs)[2]
         IN  OrElse(IF base_field \in DOMAIN md /\ subsec_field \in DOMAIN md
                    THEN parse_timestamp_with_subseconds(combined_timestamp(md[base_field], md[subsec_field]))
                    ELSE Err,
                    scan_combinations(Tail(pairs), md))

\* A slip of the loop: a field that is present and does not parse ends the scan.
RECURSIVE scan_base_fields_stop_at_failure(_, _)
scan_base_fields_stop_at_failure(fields, md) ==
    IF fields = <<>> THEN Err
    ELSE IF Head(fields) \in DOMAIN md THEN parse_timestamp_with_subseconds(md[Head(fields)])
    ELSE scan_base_fields_stop_at_failure(Tail(fields), md)

\* for field in fields: the first present field that is not a recent file-system
\* date and parses (the loop of the photo fallback and of the video list)
RECURSIVE scan_base_fields(_, _)
scan_base_fields(fields, md) ==
    IF fields = <<>> THEN Err
    ELSE LET field == Head(fields)
         IN  OrElse(IF field \in DOMAIN md /\ ~(IsFileSystemField(field) /\ is_recent_timestamp(md[field]))
                    THEN parse_timestamp_with_subseconds(md[field])
                    ELSE Err,
                    scan_base_fields(Tail(fields), md))

\* A slip of the video list: the base+fraction pairs are combined first.
extract_video_timestamp_combining(md) ==
    OrElse(scan_combinations(combinations, md), scan_base_fields(video_timestamp_fields, md))

extract_video_timestamp(md) == scan_base_fields(video_timestamp_fields, md)

\* A slip of the order: the base+fraction pairs are tried before the pre-combined fields.
extract_photo_timestamp_pairs_first(md) ==
    OrElse(scan_combinations(combinations, md),
           OrElse(scan_pre_combined(pre_combined_fields, md), scan_base_fields(fallback_fields, md)))

\* A slip of the order: the base fields alone are tried before the base+fraction pairs.
extract_photo_timestamp_base_first(md) ==
    OrElse(scan_pre_combined(pre_combined_fields, md),
           OrElse(scan_base_fields(fallback_fields, md), scan_combinations(combinations, md)))

\* the pre-combined fields, then the base+fraction pairs, then the base fields
extract_photo_timestamp(md) ==
    OrElse(scan_pre_combined(pre_combined_fields, md),
           OrElse(scan_combinations(combinations, md), scan_base_fields(fallback_fields, md)))

is_video(md) == F_MediaCreateDate \in DOMAIN md \/ F_MediaModifyDate \in DOMAIN md

\* A slip of the classification: only MediaCreateDate makes a bag a video.
extract_best_timestamp_create_key_only(md) ==
    IF F_MediaCreateDate \in DOMAIN md THEN extract_video_timestamp(md) ELSE extract_photo_timestamp(md)

extract_best_timestamp(md) ==
    IF is_video(md) THEN extract_video_timestamp(md) ELSE extract_photo_timestamp(md)

(***************************************************************************)
(* SpecResolve: extract_best_timestamp on drawn metadata bags              *)
(***************************************************************************)
\* the most tags a drawn bag holds
MaxFields == 3

\* "2025:09:24 08:20:49"
TsExif2025 == <<"2", "0", "2", "5", ":", "0", "9", ":", "2", "4", " ", "0", "8", ":", "2", "0", ":", "4", "9">>
\* "2023-01-02 03:04:05.5"
TsIso2023Frac == <<"2", "0", "2", "3", "-", "0", "1", "-", "0", "2", " ", "0", "3", ":", "0", "4", ":", "0", "5", ".", "5">>
\* "n/a"
TsUnparseable == <<"n", "/", "a">>

TimestampValues == {TsExif2025, TsIso2023Frac, TsUnparseable}

\* "7", "6809", "x7"
FractionValues == {<<"7">>, <<"6", "8", "0", "9">>, <<"x", "7">>}

FractionFields == {F_SubSecTimeOriginal, F_SubSecTime, F_SubSecTimeDigitized}

TimestampFields ==
    { F_SubSecCreateDate, F_SubSecDateTimeOriginal, F_SubSecModifyDate, F_DateTimeOriginal,
      F_ModifyDate, F_DateTimeDigitized, F_CreateDate, F_MediaCreateDate, F_MediaModifyDate,
      <<"N", "i", "k", "o", "n", "D", "a", "t", "e", "T", "i", "m", "e">> }

ValuesOf(field) == IF field \in FractionFields THEN FractionValues ELSE TimestampValues

Bags ==
    UNION { {md \in [keys -> TimestampValues \cup FractionValues] : \A k \in keys : md[k] \in ValuesOf(k)} :
            keys \in {ks \in SUBSET (TimestampFields \cup FractionFields) : Cardinality(ks) <= MaxFields} }

InitResolve ==
    /\ metadata \in Bags
    /\ resolved = Pending
    /\ dt = Idle
    /\ milliseconds = Idle
    /\ extension = Idle
    /\ existing_files = Idle
    /\ final_path = Idle
    /\ timestamp_str = Idle /\ parsed = Idle
    /\ files = Idle /\ run_mode = Idle /\ pc = Idle /\ run = Idle /\ twin = Idle /\ faults = Idle

\* let (timestamp, milliseconds) = self.extract_best_timestamp(&metadata)
ExtractBestTimestamp ==
    /\ resolved = Pending
    /\ resolved' = extract_best_timestamp(metadata)
    /\ UNCHANGED <<metadata, namingVars, parseVars, pipelineVars>>

SpecResolve == InitResolve /\ [][ExtractBestTimestamp]_vars


(***************************************************************************)
(* Paths and the filesystem                                                *)
(* A filesystem is a function from the paths that exist to their nodes: a  *)
(* regular file with its content, or a symbolic link with its target.      *)
(***************************************************************************)
\* the canonicalized output directory, "/o"
output_dir == <<"/", "o">>

\* Path::join of a directory and a relative path
PathJoin(dir, rel) == dir \o <<"/">> \o rel

\* Path::parent
PathParent(path) == SubSeq(path, 1, RFindChar(path, "/") - 1)

\* Path::extension: the part after the last dot of the file name; none when the
\* name has no dot or only a leading one
PathExtension(path) ==
    LET name == SubSeq(path, RFindChar(path, "/") + 1, Len(path))
        dot == RFindChar(name, ".")
    IN  IF dot <= 1 THEN None ELSE Some(SubSeq(name, dot + 1, Len(name)))

\* get_file_extension: lowercased, the malformed %-extensions mapped
get_file_extension(file_path) ==
    IF PathExtension(file_path) = None THEN <<>>
    ELSE LET ext == ToLower(PathExtension(file_path)[1])
         IN  IF ext \in {<<"%", "j", "p", "g">>, <<"%", "j", "p", "e", "g">>} THEN <<"j", "p", "g">>
             ELSE IF ext = <<"%", "m", "o", "v">> THEN <<"m", "o", "v">>
             ELSE IF ext = <<"%", "m", "p", "4">> THEN <<"m", "p", "4">>
             ELSE ext

FileNode(content) == [kind |-> "file", content |-> content, target |-> <<>>]
LinkNode(target) == [kind |-> "symlink", content |-> "", target |-> target]

\* The place a path names: itself when it starts at the root, else the path
\* under the working directory of the process, "/i".  The paths of the input
\* list reach the filesystem calls as they were given (src/src/main.rs passes
\* them on unchanged); only the output directory is canonicalized.
Absolute(path) == IF path # <<>> /\ Head(path) = "/" THEN path ELSE PathJoin(<<"/", "i">>, path)

\* Path::is_symlink
is_symlink(fs, path) == Absolute(path) \in DOMAIN fs /\ fs[Absolute(path)].kind = "symlink"

\* the regular file an absolute path leads to, following symbolic links; a link
\* target that does not start at the root is taken from the directory of the link
RECURSIVE ResolveLinks(_, _, _)
ResolveLinks(fs, path, hops) ==
    IF path \notin DOMAIN fs THEN None
    ELSE IF fs[path].kind = "file" THEN Some(path)
    ELSE IF hops = 0 THEN None
    ELSE ResolveLinks(fs, IF Head(fs[path].target) = "/" THEN fs[path].target
                          ELSE PathJoin(PathParent(path), fs[path].target),
                      hops - 1)

Resolve(fs, path) == ResolveLinks(fs, Absolute(path), Cardinality(DOMAIN fs))

\* Path::exists (it follows symbolic links)
exists(fs, path) == Resolve(fs, path) # None

\* the bytes read through a path that exists
ReadContent(fs, path) == fs[Resolve(fs, path)[1]].content

\* the entries of a function other than one
Without(f, x) == [y \in DOMAIN f \ {x} |-> f[y]]

\* an entry added to, or replaced in, a function
With(f, x, v) == [y \in DOMAIN f \cup {x} |-> IF y = x THEN v ELSE f[y]]

\* fs::create_dir_all: the directory and its missing ancestors
create_dir_all(dirs, dir) ==
    dirs \cup {SubSeq(dir, 1, n) : n \in {m \in 2..Len(dir) : m = Len(dir) \/ dir[m + 1] = "/"}}

\* fs::rename: the source node goes to the target path, replacing what is there
fs_rename(fs, source_path, target_path) ==
    Without(With(fs, Absolute(target_path), fs[Absolute(source_path)]), Absolute(source_path))

\* fs::copy: the bytes of the source are written to the target (through a
\* symbolic link when the target is one)
fs_copy(fs, source_path, target_path) ==
    With(fs, IF exists(fs, target_path) THEN Resolve(fs, target_path)[1] ELSE Absolute(target_path),
         FileNode(ReadContent(fs, source_path)))

\* std::os::unix::fs::symlink(source_path, target_path): the link holds the
\* source path as it was given
fs_symlink(fs, source_path, target_path) == With(fs, Absolute(target_path), LinkNode(source_path))

(***************************************************************************)
(* ContentHasher (src/src/hashing.rs)                                      *)
(***************************************************************************)
\* the lowercase hexadecimal digits of a natural number
RECURSIVE NatHex(_)
NatHex(n) ==
    LET HexChars == <<"0", "1", "2", "3", "4", "5", "6", "7", "8", "9", "a", "b", "c", "d", "e", "f">>
    IN  IF n < 16 THEN <<HexChars[n + 1]>> ELSE NatHex(n \div 16) \o <<HexChars[(n % 16) + 1]>>

\* A slip of the format: "{:x}", the digits without the zeros on the left.
FmtHex_unpadded(n) == NatHex(n)

\* format!("{:016x}", hash)
FmtHex16(n) == Repeat("0", 16 - Len(NatHex(n))) \o NatHex(n)

\* xxh3 of the bytes of a file, for the contents of the model
Xxh3Digest(content) ==
    CASE content = "img_a" -> 48879
      [] content = "img_b" -> 51966
      [] content = "img_c" -> 61453
      [] content = "img_d" -> 4027
      [] OTHER -> 255

\* calculate_file_hash: None when the file cannot be opened
calculate_file_hash(fs, file_path) ==
    IF exists(fs, file_path) THEN Some(FmtHex16(Xxh3Digest(ReadContent(fs, file_path)))) ELSE None

(***************************************************************************)
(* Metadata backends (external collaborators), by the contents of the      *)
(* model: what each backend returns for the bytes of a file                *)
(***************************************************************************)
\* DateTimeOriginal + SubSecTimeOriginal = 2025-09-24 08:20:49.680
BagPair680 == (F_DateTimeOriginal :> TsExif2025) @@ (F_SubSecTimeOriginal :> <<"6", "8">>)
\* SubSecCreateDate = "2025:09:24 08:20:49.680"
BagSubSec680 ==
    (F_SubSecCreateDate :> <<"2", "0", "2", "5", ":", "0", "9", ":", "2", "4", " ", "0", "8", ":", "2", "0", ":", "4", "9", ".", "6", "8", "0">>)
\* ModifyDate = "2025:09:24 08:20:49" and nothing else
BagModifyDateOnly == (F_ModifyDate :> TsExif2025)
\* DateTimeOriginal = "2024:12:31 23:59:59"
BagDec2024 ==
    (F_DateTimeOriginal :> <<"2", "0", "2", "4", ":", "1", "2", ":", "3", "1", " ", "2", "3", ":", "5", "9", ":", "5", "9">>)

\* OptimalExifParser::parse_file.  For img_f and img_g it returns a bag whose
\* only date tag, DateTimeOriginal = "n/a", does not parse.
optimal_parser_parse_file(content) ==
    CASE content = "img_a" -> Some(BagPair680)
      [] content = "img_b" -> Some(BagSubSec680)
      [] content = "img_c" -> Some(BagModifyDateOnly)
      [] content \in {"img_f", "img_g"} -> Some(F_DateTimeOriginal :> TsUnparseable)
      [] OTHER -> None

\* FastExifReader::read_file.  It reads more of img_c than the optimal parser
\* (the pre-combined SubSecCreateDate), reads DateTimeOriginal in img_f, and
\* finds in img_g a ModifyDate = "n/a" alone.
fast_reader_read_file(content) ==
    CASE content = "img_a" -> Some(BagPair680)
      [] content = "img_b" -> Some(BagSubSec680)
      [] content = "img_c" -> Some(BagModifyDateOnly @@ BagSubSec680)
      [] content \in {"img_d", "img_f"} -> Some(BagDec2024)
      [] content = "img_g" -> Some(F_ModifyDate :> TsUnparseable)
      [] OTHER -> None

\* extract_exif_data_optimal, extract_exif_data_fast_exif: the bag of a backend,
\* then the best timestamp of that bag
extract_with(bag) == IF bag = None THEN Err ELSE extract_best_timestamp(bag[1])

\* A slip of the chain: the first bag a backend returns is the bag of the file,
\* whether or not it resolves.
extract_exif_data_first_bag(fs, file_path) ==
    IF ~exists(fs, file_path) THEN Err
    ELSE extract_with(IF optimal_parser_parse_file(ReadContent(fs, file_path)) # None
                      THEN optimal_parser_parse_file(ReadContent(fs, file_path))
                      ELSE fast_reader_read_file(ReadContent(fs, file_path)))

\* extract_exif_data: the optimal parser, then fast-exif-rs, else an error
extract_exif_data(fs, file_path) ==
    IF ~exists(fs, file_path) THEN Err
    ELSE OrElse(extract_with(optimal_parser_parse_file(ReadContent(fs, file_path))),
                extract_with(fast_reader_read_file(ReadContent(fs, file_path))))

(***************************************************************************)
(* Phase 1: ExifProcessor::analyze_single_file                             *)
(***************************************************************************)
AnalysisResult(file_path, success, error, exif_data, new_filename) ==
    [file_path |-> file_path, success |-> success, error |-> error, exif_data |-> exif_data, new_filename |-> new_filename]

\* A slip of the error arm: a file without a timestamp gets the modification
\* time of the file, 2026-01-01 00:00:00.
analysis_of_mtime_fallback(file_path, exif) ==
    IF exif.ok
    THEN AnalysisResult(file_path, TRUE, None, Some([timestamp |-> exif.dt, milliseconds |-> exif.ms]),
                        Some(generate_filename(exif.dt, exif.ms, get_file_extension(file_path), <<>>)))
    ELSE AnalysisResult(file_path, TRUE, None, Some([timestamp |-> DateTime(2026, 1, 1, 0, 0, 0), milliseconds |-> 0]),
                        Some(generate_filename(DateTime(2026, 1, 1, 0, 0, 0), 0, get_file_extension(file_path), <<>>)))

\* match self.extract_exif_data(file_path) { Ok(exif_data) => .., Err(e) => .. }
analysis_of(file_path, exif) ==
    IF exif.ok
    THEN AnalysisResult(file_path, TRUE, None, Some([timestamp |-> exif.dt, milliseconds |-> exif.ms]),
                        Some(generate_filename(exif.dt, exif.ms, get_file_extension(file_path), <<>>)))
    ELSE AnalysisResult(file_path, FALSE, Some("No valid EXIF timestamp found"), None, None)

analyze_single_file(fs, file_path) ==
    IF is_symlink(fs, file_path)
    THEN AnalysisResult(file_path, TRUE, Some("Skipped symlink - cannot process symbolic links"), None, None)
    ELSE analysis_of(file_path, extract_exif_data(fs, file_path))

(***************************************************************************)
(* The hash gate: FileProcessor::build_content_hash_index                  *)
(***************************************************************************)
\* A slip of the gate: the source of every successful result is scheduled, and
\* its provisional target too when it exists.
files_to_hash_every_source(analysis_results, fs) ==
    UNION { {analysis_results[i].file_path}
                \cup {p \in {PathJoin(output_dir, analysis_results[i].new_filename[1])} : exists(fs, p)} :
            i \in {j \in DOMAIN analysis_results :
                     /\ analysis_results[j].success
                     /\ analysis_results[j].exif_data # None
                     /\ analysis_results[j].new_filename # None} }

\* the paths scheduled for hashing: the source and the provisional target of
\* every successful result whose provisional target exists
files_to_hash(analysis_results, fs) ==
    UNION { {analysis_results[i].file_path, PathJoin(output_dir, analysis_results[i].new_filename[1])} :
            i \in {j \in DOMAIN analysis_results :
                     /\ analysis_results[j].success
                     /\ analysis_results[j].exif_data # None
                     /\ analysis_results[j].new_filename # None
                     /\ exists(fs, PathJoin(output_dir, analysis_results[j].new_filename[1]))} }

(***************************************************************************)
(* Phase 2: FileProcessor::rename_files_parallel                           *)
(***************************************************************************)
\* chrono's format("%Y"): 4 digits for the years 0..9999, a sign and the digits otherwise
ChronoFormatYear(y) ==
    IF y >= 0 /\ y <= 9999 THEN FmtZeroPad(y, 4)
    ELSE IF y < 0 THEN <<"-">> \o FmtZeroPad(0 - y, 4)
    ELSE <<"+">> \o NatDigits(y)

\* output_dir.join(format!("{}/{}", timestamp.format("%Y"), timestamp.format("%m-%b")))
target_dir(exif_data) ==
    PathJoin(output_dir, ChronoFormatYear(exif_data.timestamp.year) \o <<"/">>
                         \o FmtZeroPad(exif_data.timestamp.month, 2) \o <<"-">> \o month_names[exif_data.timestamp.month])

\* A slip of the grouping loop: it stops at the first failed analysis.
grouped_results_until_failure(analysis_results) ==
    LET failed == {i \in DOMAIN analysis_results : ~analysis_results[i].success}
        kept == IF failed = {} THEN analysis_results
                ELSE SubSeq(analysis_results, 1, (CHOOSE i \in failed : \A j \in failed : i <= j) - 1)
    IN  [d \in {target_dir(kept[i].exif_data[1]) : i \in {j \in DOMAIN kept : kept[j].exif_data # None}} |->
            LET InDir(r) == r.exif_data # None /\ target_dir(r.exif_data[1]) = d
            IN  SelectSeq(kept, InDir)]

\* A slip of the order: each group lists its results last first.
grouped_results_last_first(analysis_results) ==
    [d \in {target_dir(analysis_results[i].exif_data[1]) :
              i \in {j \in DOMAIN analysis_results : analysis_results[j].exif_data # None}} |->
        LET InDir(r) == r.exif_data # None /\ target_dir(r.exif_data[1]) = d
            selected == SelectSeq(analysis_results, InDir)
        IN  [i \in DOMAIN selected |-> selected[Len(selected) + 1 - i]]]

\* grouped_results: the results that carry EXIF data, by target directory, each
\* group in the order of the analysis results
grouped_results(analysis_results) ==
    [d \in {target_dir(analysis_results[i].exif_data[1]) :
              i \in {j \in DOMAIN analysis_results : analysis_results[j].exif_data # None}} |->
        LET InDir(r) == r.exif_data # None /\ target_dir(r.exif_data[1]) = d
        IN  SelectSeq(analysis_results, InDir)]


\* What perform_file_operation does to the filesystem, and whether it returns Ok.
\* fault is what the operating system does to this call: "none", "op" (the rename,
\* copy or symlink call fails and changes nothing), "xdev" (the rename crosses
\* devices: copy, then delete) or "remove" (it crosses devices, the copy is done
\* and the delete of the original fails). applies says that the call met the fault.
perform_file_operation(source_path, target_path, mode, fs, dirs, fault) ==
    IF ~exists(fs, source_path)
    THEN [ok |-> FALSE, fs |-> fs, dirs |-> dirs, applies |-> FALSE]
    ELSE LET dirs2 == create_dir_all(dirs, PathParent(target_path))
         IN  IF mode = "move" THEN
                 IF fault = "op" THEN [ok |-> FALSE, fs |-> fs, dirs |-> dirs2, applies |-> TRUE]
                 ELSE IF fault = "xdev"
                 THEN [ok |-> TRUE, fs |-> Without(fs_copy(fs, source_path, target_path), Absolute(source_path)), dirs |-> dirs2, applies |-> TRUE]
                 ELSE IF fault = "remove"
                 THEN [ok |-> FALSE, fs |-> fs_copy(fs, source_path, target_path), dirs |-> dirs2, applies |-> TRUE]
                 ELSE [ok |-> TRUE, fs |-> fs_rename(fs, source_path, target_path), dirs |-> dirs2, applies |-> FALSE]
             ELSE IF mode = "copy" THEN
                 IF fault = "op" THEN [ok |-> FALSE, fs |-> fs, dirs |-> dirs2, applies |-> TRUE]
                 ELSE [ok |-> TRUE, fs |-> fs_copy(fs, source_path, target_path), dirs |-> dirs2, applies |-> FALSE]
             ELSE IF mode = "symlink" THEN
                 IF Absolute(target_path) \in DOMAIN fs THEN [ok |-> FALSE, fs |-> fs, dirs |-> dirs2, applies |-> FALSE]
                 ELSE IF fault = "op" THEN [ok |-> FALSE, fs |-> fs, dirs |-> dirs2, applies |-> TRUE]
                 ELSE [ok |-> TRUE, fs |-> fs_symlink(fs, source_path, target_path), dirs |-> dirs2, applies |-> FALSE]
             ELSE [ok |-> FALSE, fs |-> fs, dirs |-> dirs2, applies |-> FALSE]

ProcessResult(file_path, success, renamed, new_path, error) ==
    [file_path |-> file_path, success |-> success, renamed |-> renamed, new_path |-> new_path, error |-> error]

\* the outcome of one call: the result, and the claimed list and the filesystem after it
Outcome(result, existing_files_, fs, dirs, applies) ==
    [result |-> result, existing_files |-> existing_files_, fs |-> fs, dirs |-> dirs, applies |-> applies]

\* A slip of the lookup: the two lookups are compared as they are, so that two
\* missing hashes count as a match.
is_content_duplicate_options_compared(hash_index, fs, file_path, target_path) ==
    /\ exists(fs, target_path)
    /\ (IF file_path \in DOMAIN hash_index THEN Some(hash_index[file_path]) ELSE None)
           = (IF target_path \in DOMAIN hash_index THEN Some(hash_index[target_path]) ELSE None)

\* the duplicate test: the target exists and the index holds equal hashes for both paths
is_content_duplicate(hash_index, fs, file_path, target_path) ==
    /\ exists(fs, target_path)
    /\ file_path \in DOMAIN hash_index
    /\ target_path \in DOMAIN hash_index
    /\ hash_index[file_path] = hash_index[target_path]

\* A slip of the push: the name is claimed before the operation, so also when it fails.
operation_outcome_claims_failed(ar, final_filename, target_path, existing, op) ==
    IF op.ok
    THEN Outcome(ProcessResult(ar.file_path, TRUE, TRUE, Some(target_path), None),
                 Append(existing, final_filename), op.fs, op.dirs, op.applies)
    ELSE Outcome(ProcessResult(ar.file_path, FALSE, FALSE, None, Some("Failed to process file")),
                 Append(existing, final_filename), op.fs, op.dirs, op.applies)

\* match perform_file_operation(..) { Ok(_) => { existing_files.push(final_filename); .. }, Err(e) => .. }
operation_outcome(ar, final_filename, target_path, existing, op) ==
    IF op.ok
    THEN Outcome(ProcessResult(ar.file_path, TRUE, TRUE, Some(target_path), None),
                 Append(existing, final_filename), op.fs, op.dirs, op.applies)
    ELSE Outcome(ProcessResult(ar.file_path, FALSE, FALSE, None, Some("Failed to process file")),
                 existing, op.fs, op.dirs, op.applies)

\* from the final name on: the duplicate test, the target directory, the test
\* for a file already in place, the operation
place_file(ar, final_filename, hash_index, existing, mode, fs, dirs, fault) ==
    LET target_path == PathJoin(output_dir, final_filename)
        parent == PathParent(target_path)
    IN  IF is_content_duplicate(hash_index, fs, ar.file_path, target_path)
        THEN Outcome(ProcessResult(ar.file_path, TRUE, FALSE, None, Some("Content duplicate")), existing, fs, dirs, FALSE)
        ELSE IF fault = "mkdir" /\ parent \notin dirs
        THEN Outcome(ProcessResult(ar.file_path, FALSE, FALSE, None, Some("Failed to create directory")), existing, fs, dirs, TRUE)
        ELSE IF target_path = ar.file_path
        THEN Outcome(ProcessResult(ar.file_path, TRUE, FALSE, None, Some("No rename needed")),
                     existing, fs, create_dir_all(dirs, parent), FALSE)
        ELSE operation_outcome(ar, final_filename, target_path, existing,
                               perform_file_operation(ar.file_path, target_path, mode, fs, create_dir_all(dirs, parent), fault))

process_single_file_rename(ar, hash_index, existing, mode, fs, dirs, fault) ==
    IF ~ar.success
    THEN Outcome(ProcessResult(ar.file_path, FALSE, FALSE, None, ar.error), existing, fs, dirs, FALSE)
    ELSE IF ar.exif_data = None \/ ar.new_filename = None
    THEN Outcome(ProcessResult(ar.file_path, FALSE, FALSE, None, Some("Missing EXIF data or filename")), existing, fs, dirs, FALSE)
    ELSE place_file(ar, generate_filename(ar.exif_data[1].timestamp, ar.exif_data[1].milliseconds,
                                          get_file_extension(ar.file_path), existing),
                    hash_index, existing, mode, fs, dirs, fault)


\* A slip of the push: a placed file's name is not added to the claimed list.
group_step_no_push(ar, hash_index, existing, mode, fs, dirs, fault) ==
    [process_single_file_rename(ar, hash_index, existing, mode, fs, dirs, fault) EXCEPT !.existing_files = existing]

\* A slip of the order: the directory is made and the name claimed before the
\* duplicate test returns.
claim_if_duplicate(o, final_filename, existing, dirs) ==
    IF o.result.error = Some("Content duplicate")
    THEN [o EXCEPT !.existing_files = Append(existing, final_filename),
                   !.dirs = create_dir_all(dirs, PathParent(PathJoin(output_dir, final_filename)))]
    ELSE o

group_step_claims_duplicate(ar, hash_index, existing, mode, fs, dirs, fault) ==
    claim_if_duplicate(process_single_file_rename(ar, hash_index, existing, mode, fs, dirs, fault),
                       IF ar.exif_data = None THEN <<>>
                       ELSE generate_filename(ar.exif_data[1].timestamp, ar.exif_data[1].milliseconds,
                                              get_file_extension(ar.file_path), existing),
                       existing, dirs)

\* A slip of the push: the provisional name of the analysis is claimed, not the final one.
group_step_claims_provisional(ar, hash_index, existing, mode, fs, dirs, fault) ==
    LET o == process_single_file_rename(ar, hash_index, existing, mode, fs, dirs, fault)
    IN  IF o.result.renamed THEN [o EXCEPT !.existing_files = Append(existing, ar.new_filename[1])] ELSE o

\* the body of the loop over a group: one file is processed and its result kept
group_step(ar, hash_index, existing, mode, fs, dirs, fault) ==
    process_single_file_rename(ar, hash_index, existing, mode, fs, dirs, fault)

(***************************************************************************)
(* FileProcessor::process_files as a state machine                         *)
(*                                                                         *)
(* A run is the record of one call: its input list, the analysis results   *)
(* (None until a file is analysed), the paths still to hash, the hash      *)
(* index, the groups with each group's progress, claimed list and results, *)
(* the filesystem at the call and now, and the report.  The variable twin  *)
(* is a second run, on the same filesystem and under the same schedule, of *)
(* the input list without the inputs whose analysis fails.                 *)
(***************************************************************************)
NewRun(files_, fs, dirs) ==
    [ files |-> files_,
      analysis_results |-> [i \in DOMAIN files_ |-> None],
      to_hash |-> {},
      hash_index |-> <<>>,
      grouped_results |-> <<>>,
      pos |-> <<>>,
      existing_files |-> <<>>,
      group_results |-> <<>>,
      fs0 |-> fs,
      dirs0 |-> dirs,
      fs |-> fs,
      dirs |-> dirs,
      all_results |-> None ]

\* temp_processor.analyze_single_file(file_path), for one file of the list
RunAnalyze(r, file_path) ==
    IF \E i \in DOMAIN r.files : r.files[i] = file_path
    THEN LET i == CHOOSE j \in DOMAIN r.files : r.files[j] = file_path
         IN  [r EXCEPT !.analysis_results[i] = Some(analyze_single_file(r.fs, file_path))]
    ELSE r

\* the analysis results, once every file is analysed
Analysed(r) == [i \in DOMAIN r.files |-> r.analysis_results[i][1]]

\* build_content_hash_index, up to the parallel loop: the paths to hash
RunBuildHashIndex(r) == [r EXCEPT !.to_hash = files_to_hash(Analysed(r), r.fs)]

\* A slip of the exclusion: the insertion is made into the empty map the worker
\* started from, and the entries of the other workers are lost.
RunHashFile_lost_update(r, file_path, hash_ok) ==
    IF file_path \notin r.to_hash THEN r
    ELSE LET hash == calculate_file_hash(r.fs, file_path)
         IN  [r EXCEPT !.to_hash = @ \ {file_path},
                       !.hash_index = IF hash_ok /\ hash # None THEN (file_path :> hash[1]) ELSE @]

\* one iteration of files_to_hash.par_iter().for_each: the hash is inserted when
\* it could be computed (hash_ok is FALSE when the read fails)
RunHashFile(r, file_path, hash_ok) ==
    IF file_path \notin r.to_hash THEN r
    ELSE LET hash == calculate_file_hash(r.fs, file_path)
         IN  [r EXCEPT !.to_hash = @ \ {file_path},
                       !.hash_index = IF hash_ok /\ hash # None THEN With(@, file_path, hash[1]) ELSE @]

\* rename_files_parallel, up to the parallel loop: the groups, each with an empty
\* claimed list and no result
RunGroup(r) ==
    LET g == grouped_results(Analysed(r))
    IN  [r EXCEPT !.grouped_results = g,
                  !.pos = [d \in DOMAIN g |-> 0],
                  !.existing_files = [d \in DOMAIN g |-> <<>>],
                  !.group_results = [d \in DOMAIN g |-> <<>>]]

HasWork(r, d) == d \in DOMAIN r.grouped_results /\ r.pos[d] < Len(r.grouped_results[d])

\* the outcome of the next file of group d
NextOutcome(r, d, mode_, fault) ==
    group_step(r.grouped_results[d][r.pos[d] + 1], r.hash_index, r.existing_files[d], mode_, r.fs, r.dirs, fault)

\* A slip of the ownership: one claimed list is shared by the workers of all groups.
Apply_shared_claimed(r, d, o) ==
    [r EXCEPT !.pos[d] = @ + 1,
              !.existing_files = [e \in DOMAIN @ |-> o.existing_files],
              !.group_results[d] = Append(@, o.result),
              !.fs = o.fs,
              !.dirs = o.dirs]

\* one iteration of the loop of the worker of group d
\* results.push(result), with the effects of the call on the claimed list and the filesystem
Apply(r, d, o) ==
    [r EXCEPT !.pos[d] = @ + 1,
              !.existing_files[d] = o.existing_files,
              !.group_results[d] = Append(@, o.result),
              !.fs = o.fs,
              !.dirs = o.dirs]

RunPlace(r, d, mode_, fault) == IF ~HasWork(r, d) THEN r ELSE Apply(r, d, NextOutcome(r, d, mode_, fault))

RECURSIVE Flatten(_, _)
Flatten(group_results_, order) ==
    IF order = <<>> THEN <<>>
    ELSE (IF Head(order) \in DOMAIN group_results_ THEN group_results_[Head(order)] ELSE <<>>)
             \o Flatten(group_results_, Tail(order))

\* the results of the groups, flattened in the order the map yields the groups
RunCollect(r, order) == [r EXCEPT !.all_results = Some(Flatten(r.group_results, order))]


(***************************************************************************)
(* Spec: batches drawn from a small world of files                         *)
(***************************************************************************)
InA == <<"/", "i", "/", "a", ".", "j", "p", "g">>
InB == <<"/", "i", "/", "b", ".", "J", "P", "G">>
InC == <<"/", "i", "/", "c", ".", "j", "p", "g">>
InD == <<"/", "i", "/", "d", ".", "m", "o", "v">>
InE == <<"/", "i", "/", "e", ".", "j", "p", "g">>
InL == <<"/", "i", "/", "l", ".", "j", "p", "g">>
InF == <<"/", "i", "/", "f", ".", "j", "p", "g">>
InG == <<"/", "i", "/", "g", ".", "j", "p", "g">>
InT == <<"/", "i", "/", "t", ".", "j", "p", "g">>
\* "r.jpg", a path given relative to the working directory: the file /i/r.jpg
InR == <<"r", ".", "j", "p", "g">>
\* "/o/2025/09-Sep/20250924_082049.680.jpg": a file of an earlier run, when there is one
InO ==
    <<"/", "o", "/", "2", "0", "2", "5", "/", "0", "9", "-", "S", "e", "p", "/", "2", "0", "2", "5", "0", "9", "2", "4",
      "_", "0", "8", "2", "0", "4", "9", ".", "6", "8", "0", ".", "j", "p", "g">>

\* the paths a batch is drawn from
Candidates == {InA, InB, InC, InD, InE, InL, InO}

\* the input directory: two photos of the same instant (a.jpg by a base+fraction
\* pair, b.JPG by a pre-combined field), a photo with ModifyDate only, a video only
\* the second backend reads, a file no backend reads, a symbolic link, r.jpg,
\* a second photo with ModifyDate only, f.jpg, whose first bag has no usable tag
\* and whose second bag has one, g.jpg, whose bags have no usable tag, and
\* t.jpg, a copy of a.jpg under another name
InputFiles ==
    (InA :> FileNode("img_a")) @@ (InB :> FileNode("img_b")) @@ (InC :> FileNode("img_c"))
        @@ (InD :> FileNode("img_d")) @@ (InE :> FileNode("junk")) @@ (InL :> LinkNode(InA))
        @@ (Absolute(InR) :> FileNode("img_c"))
        @@ (InF :> FileNode("img_f")) @@ (InG :> FileNode("img_g")) @@ (InT :> FileNode("img_a"))

\* what an earlier run left at InO: nothing, a copy of a.jpg, or a copy of b.JPG
PriorContents == {"", "img_a", "img_b"}

InitialFs(prior) == IF prior = "" THEN InputFiles ELSE InputFiles @@ (InO :> FileNode(prior))

InitialDirs(prior) ==
    IF prior = "" THEN {output_dir, <<"/", "i">>} ELSE create_dir_all({output_dir, <<"/", "i">>}, PathParent(InO))

\* "link" stands for every mode string that is not move, copy or symlink
Modes == {"move", "copy", "symlink", "link"}

Faults == {"none", "mkdir", "op", "xdev", "remove"}

DistinctSeqs(S, n) == {q \in UNION {[1..k -> S] : k \in 1..n} : \A i, j \in DOMAIN q : i # j => q[i] # q[j]}

\* the inputs whose analysis does not fail
WithoutFailing(files_, fs) ==
    LET AnalysisSucceeds(file_path) == analyze_single_file(fs, file_path).success
    IN  SelectSeq(files_, AnalysisSucceeds)

Init ==
    /\ files \in DistinctSeqs(Candidates, MaxFiles)
    /\ run_mode \in Modes
    /\ pc = "analyze"
    /\ \E prior \in PriorContents :
           /\ run = NewRun(files, InitialFs(prior), InitialDirs(prior))
           /\ twin = NewRun(WithoutFailing(files, InitialFs(prior)), InitialFs(prior), InitialDirs(prior))
    /\ faults = 0
    /\ dt = Idle /\ milliseconds = Idle /\ extension = Idle /\ existing_files = Idle /\ final_path = Idle
    /\ metadata = Idle /\ resolved = Idle
    /\ timestamp_str = Idle /\ parsed = Idle

\* Phase 1, files.par_chunks(..).flat_map(.. analyze_single_file ..): any file
\* not yet analysed, in any order
AnalyzeFile(i) ==
    /\ pc = "analyze"
    /\ run.analysis_results[i] = None
    /\ run' = RunAnalyze(run, files[i])
    /\ twin' = RunAnalyze(twin, files[i])
    /\ UNCHANGED <<files, run_mode, pc, faults, namingVars, resolveVars, parseVars>>

\* the analysis is complete: build_content_hash_index finds the paths to hash
BuildHashIndex ==
    /\ pc = "analyze"
    /\ \A i \in DOMAIN files : run.analysis_results[i] # None
    /\ run' = RunBuildHashIndex(run)
    /\ twin' = RunBuildHashIndex(twin)
    /\ pc' = "hash"
    /\ UNCHANGED <<files, run_mode, faults, namingVars, resolveVars, parseVars>>

\* the gate, files_to_hash.par_iter().for_each: any path still to hash; the
\* read of a file that exists may fail
HashFile(file_path, hash_ok) ==
    /\ pc = "hash"
    /\ file_path \in run.to_hash \cup twin.to_hash
    /\ ~hash_ok => (faults < MaxFaults /\ exists(run.fs, file_path))
    /\ run' = RunHashFile(run, file_path, hash_ok)
    /\ twin' = RunHashFile(twin, file_path, hash_ok)
    /\ faults' = IF hash_ok THEN faults ELSE faults + 1
    /\ UNCHANGED <<files, run_mode, pc, namingVars, resolveVars, parseVars>>

\* A slip of the barrier: the grouping starts when the paths to hash are known,
\* not when they are hashed.
GroupResults_before_gate_ends ==
    /\ pc = "hash"
    /\ run' = RunGroup(run)
    /\ twin' = RunGroup(twin)
    /\ pc' = "rename"
    /\ UNCHANGED <<files, run_mode, faults, namingVars, resolveVars, parseVars>>

\* the gate is complete: rename_files_parallel groups the results
GroupResults ==
    /\ pc = "hash"
    /\ run.to_hash = {} /\ twin.to_hash = {}
    /\ run' = RunGroup(run)
    /\ twin' = RunGroup(twin)
    /\ pc' = "rename"
    /\ UNCHANGED <<files, run_mode, faults, namingVars, resolveVars, parseVars>>

\* the groups of the run and of its twin
GroupKeys == DOMAIN run.grouped_results \cup DOMAIN twin.grouped_results

\* Phase 2, grouped_results.into_par_iter(): the worker of any group with files
\* left processes its next file
ProcessSingleFileRename(d, fault) ==
    /\ pc = "rename"
    /\ d \in {g \in GroupKeys : HasWork(run, g) \/ HasWork(twin, g)}
    /\ fault \in {"mkdir", "op", "remove"} => faults < MaxFaults
    /\ fault \in {"xdev", "remove"} => run_mode = "move"
    /\ \E o \in {NextOutcome(IF HasWork(run, d) THEN run ELSE twin, d, run_mode, fault)} :
           /\ fault # "none" => o.applies
           /\ run' = IF HasWork(run, d) THEN Apply(run, d, o) ELSE run
    /\ twin' = RunPlace(twin, d, run_mode, fault)
    /\ faults' = IF fault \in {"none", "xdev"} THEN faults ELSE faults + 1
    /\ UNCHANGED <<files, run_mode, pc, namingVars, resolveVars, parseVars>>

\* every worker is done: the results are flattened, group after group, in the
\* order in which the map of groups yields them
CollectResults(order) ==
    /\ pc = "rename"
    /\ \A d \in GroupKeys : ~HasWork(run, d) /\ ~HasWork(twin, d)
    /\ \A i, j \in DOMAIN order : i # j => order[i] # order[j]
    /\ run' = RunCollect(run, order)
    /\ twin' = RunCollect(twin, order)
    /\ pc' = "done"
    /\ UNCHANGED <<files, run_mode, faults, namingVars, resolveVars, parseVars>>

Next ==
    \/ \E i \in DOMAIN files : AnalyzeFile(i)
    \/ BuildHashIndex
    \/ \E file_path \in run.to_hash \cup twin.to_hash, hash_ok \in BOOLEAN : HashFile(file_path, hash_ok)
    \/ GroupResults
    \/ \E d \in GroupKeys, fault \in Faults : ProcessSingleFileRename(d, fault)
    \/ \E order \in [1..Cardinality(GroupKeys) -> GroupKeys] : CollectResults(order)

Spec == Init /\ [][Next]_vars

(***************************************************************************)
(* SpecPaths: batches with an input given by a relative path (r.jpg), with *)
(* an input that lies in the output directory (the file an earlier run or  *)
(* the user left at InO: none, a copy of a.jpg, or a copy of c.jpg or of    *)
(* f.jpg under a name that is not the one of its metadata; the copy of     *)
(* f.jpg belongs to the group of another month), and with inputs on which  *)
(* the backends disagree or fail (f.jpg, g.jpg, e.jpg)                     *)
(***************************************************************************)
InitPaths ==
    /\ files \in DistinctSeqs({InA, InR, InO, InF, InG, InE}, MaxFiles)
    /\ run_mode \in Modes
    /\ pc = "analyze"
    /\ \E prior \in {"", "img_a", "img_c", "img_f"} :
           /\ run = NewRun(files, InitialFs(prior), InitialDirs(prior))
           /\ twin = NewRun(WithoutFailing(files, InitialFs(prior)), InitialFs(prior), InitialDirs(prior))
    /\ faults = 0
    /\ dt = Idle /\ milliseconds = Idle /\ extension = Idle /\ existing_files = Idle /\ final_path = Idle
    /\ metadata = Idle /\ resolved = Idle
    /\ timestamp_str = Idle /\ parsed = Idle

SpecPaths == InitPaths /\ [][Next]_vars

(***************************************************************************)
(* SpecRerun: batches of up to three photos of one instant (a.jpg, its     *)
(* copy t.jpg and b.JPG) and a photo of another month (f.jpg), in copy     *)
(* mode, on an empty output directory or on the output directory that a    *)
(* first call with the same input list has filled                          *)
(***************************************************************************)
\* process_files as one call without fault: the analysis of every file, the
\* gate, the grouping, and the workers of the groups each run to its end
process_files(files_, fs, dirs, mode_) ==
    LET RECURSIVE analyze_all(_, _)
        analyze_all(r, i) == IF i > Len(files_) THEN r ELSE analyze_all(RunAnalyze(r, files_[i]), i + 1)
        RECURSIVE hash_all(_)
        hash_all(r) ==
            IF r.to_hash = {} THEN r ELSE hash_all(RunHashFile(r, CHOOSE file_path \in r.to_hash : TRUE, TRUE))
        RECURSIVE rename_all(_)
        rename_all(r) ==
            IF \E d \in DOMAIN r.grouped_results : HasWork(r, d)
            THEN rename_all(RunPlace(r, CHOOSE d \in DOMAIN r.grouped_results : HasWork(r, d), mode_, "none"))
            ELSE r
    IN  rename_all(RunGroup(hash_all(RunBuildHashIndex(analyze_all(NewRun(files_, fs, dirs), 1)))))

InitRerun ==
    /\ files \in DistinctSeqs({InA, InT, InB, InF}, MaxTied)
    /\ run_mode = "copy"
    /\ pc = "analyze"
    /\ \E first \in {process_files(files, InitialFs(""), InitialDirs(""), "copy")}, again \in BOOLEAN :
           /\ run = NewRun(files, IF again THEN first.fs ELSE InitialFs(""), IF again THEN first.dirs ELSE InitialDirs(""))
           /\ twin = run
    /\ faults = 0
    /\ dt = Idle /\ milliseconds = Idle /\ extension = Idle /\ existing_files = Idle /\ final_path = Idle
    /\ metadata = Idle /\ resolved = Idle
    /\ timestamp_str = Idle /\ parsed = Idle

SpecRerun == InitRerun /\ [][Next]_vars


(***************************************************************************)
(* Claims about a batch (Spec)                                             *)
(***************************************************************************)
\* the report process_files returns, once it has returned
Report(r) == r.all_results[1]

\* the results of the report that are about one path
ResultsFor(r, file_path) == {k \in DOMAIN Report(r) : Report(r)[k].file_path = file_path}

\* input i went through Phase 1 and its analysis failed
AnalysisFailed(i) == run.analysis_results[i] # None /\ ~run.analysis_results[i][1].success

\* input i resolved to a timestamp
Resolved(i) == run.analysis_results[i] # None /\ run.analysis_results[i][1].exif_data # None

\* the capture instant, the millisecond and the normalised extension of a resolved input
NameKey(i) ==
    <<run.analysis_results[i][1].exif_data[1].timestamp, run.analysis_results[i][1].exif_data[1].milliseconds,
      get_file_extension(files[i])>>

\* input i was placed: a result of the report says it was renamed
Placed(i) == \E k \in ResultsFor(run, files[i]) : Report(run)[k].renamed

\* the destination of a placed input
Destination(i) == Report(run)[CHOOSE k \in ResultsFor(run, files[i]) : Report(run)[k].renamed].new_path

\* "/o/2025/09-Sep/20250924_082049.680-2.jpg"
InO2 ==
    <<"/", "o", "/", "2", "0", "2", "5", "/", "0", "9", "-", "S", "e", "p", "/", "2", "0", "2", "5", "0", "9", "2", "4",
      "_", "0", "8", "2", "0", "4", "9", ".", "6", "8", "0", "-", "2", ".", "j", "p", "g">>

\* C1 (as stated): when process_files has returned, the report holds exactly one
\* result for every input path, symbolic links and failed analyses included.
C1_OneResultPerInput ==
    pc = "done" => \A i \in DOMAIN files : Cardinality(ResultsFor(run, files[i])) = 1

\* the inputs of the batch are k inputs whose analysis fails and m valid inputs
\* with pairwise different timestamps and free target paths, met by no I/O fault
FailingAndValidBatch ==
    /\ pc = "done"
    /\ faults = 0
    /\ run_mode \in {"move", "copy", "symlink"}
    /\ \A i \in DOMAIN files : AnalysisFailed(i) \/ Resolved(i)
    /\ \A i, j \in DOMAIN files : (i # j /\ Resolved(i) /\ Resolved(j)) => NameKey(i)[1] # NameKey(j)[1]
    /\ \A i \in DOMAIN files :
           Resolved(i) =>
               /\ run.analysis_results[i][1].new_filename # None
               /\ ~exists(run.fs0, PathJoin(output_dir, run.analysis_results[i][1].new_filename[1]))

\* C3 (as stated): a batch of k inputs whose analysis fails and m valid inputs
\* with pairwise different timestamps and free targets reports exactly m
\* successful results and exactly k failed results.
C3_CountsSuccessesAndFailures ==
    FailingAndValidBatch =>
        /\ Cardinality({k \in DOMAIN Report(run) : Report(run)[k].success})
               = Cardinality({i \in DOMAIN files : Resolved(i)})
        /\ Cardinality({k \in DOMAIN Report(run) : ~Report(run)[k].success})
               = Cardinality({i \in DOMAIN files : AnalysisFailed(i)})

\* inputs i and j are the two placed inputs of their instant, millisecond and
\* normalised extension, i before j in the input list
TwoPlacedWithOneName(i, j) ==
    /\ i < j
    /\ Resolved(i) /\ Resolved(j) /\ NameKey(i) = NameKey(j)
    /\ Placed(i) /\ Placed(j)
    /\ \A k \in DOMAIN files \ {i, j} : ~(Resolved(k) /\ NameKey(k) = NameKey(i) /\ Placed(k))

\* C2: of two inputs of one batch with the same capture instant, millisecond and
\* normalised extension that are both placed, the first in processing order ends
\* at the canonical unsuffixed path and the second at that path with the suffix -2.
C2_SecondGetsSuffix2 ==
    pc = "done" =>
        \A i, j \in DOMAIN files :
            TwoPlacedWithOneName(i, j) =>
                /\ Destination(i) = Some(PathJoin(output_dir, full_path(NameKey(i)[1], NameKey(i)[2], NameKey(i)[3])))
                /\ Destination(j) = Some(PathJoin(output_dir, path_with_suffix(NameKey(i)[1], NameKey(i)[2], NameKey(i)[3], 2)))
                /\ Destination(i) # Destination(j)

\* a.jpg and b.JPG, both of 2025-09-24 08:20:49.680, were placed in this order: at
\* .../20250924_082049.680.jpg and at .../20250924_082049.680-2.jpg
C2_Witness ==
    /\ pc = "done"
    /\ \E i, j \in DOMAIN files :
           /\ TwoPlacedWithOneName(i, j)
           /\ files[i] = InA /\ files[j] = InB
           /\ Destination(i) = Some(InO) /\ Destination(j) = Some(InO2)

NextIsDuplicate(r, d) ==
    LET ar == r.grouped_results[d][r.pos[d] + 1]
        target_path == PathJoin(output_dir, generate_filename(ar.exif_data[1].timestamp, ar.exif_data[1].milliseconds,
                                                              get_file_extension(ar.file_path), r.existing_files[d]))
    IN  /\ exists(r.fs, target_path)
        /\ ar.file_path \in DOMAIN r.hash_index
        /\ target_path \in DOMAIN r.hash_index
        /\ r.hash_index[ar.file_path] = r.hash_index[target_path]

\* C5: a step of Phase 2 on a file whose final target exists with equal hashes
\* in the index marks it skipped-duplicate (success, not renamed, no destination)
\* and changes nothing: no directory, no file, no claimed name.
C5_DuplicateSkippedUntouched ==
    [][\A d \in DOMAIN run.grouped_results :
           (pc = "rename" /\ pc' = "rename" /\ HasWork(run, d) /\ run'.pos[d] = run.pos[d] + 1 /\ NextIsDuplicate(run, d)) =>
               /\ run'.group_results[d][Len(run'.group_results[d])].success
               /\ ~run'.group_results[d][Len(run'.group_results[d])].renamed
               /\ run'.group_results[d][Len(run'.group_results[d])].new_path = None
               /\ run'.group_results[d][Len(run'.group_results[d])].file_path = run.grouped_results[d][run.pos[d] + 1].file_path
               /\ run'.fs = run.fs
               /\ run'.dirs = run.dirs
               /\ run'.existing_files[d] = run.existing_files[d]]_vars

\* a file was skipped as a content duplicate
C5_Witness ==
    /\ pc = "rename"
    /\ \E d \in DOMAIN run.group_results :
           \E k \in DOMAIN run.group_results[d] :
               /\ run.group_results[d][k].error = Some("Content duplicate")
               /\ run.group_results[d][k].success /\ ~run.group_results[d][k].renamed

\* "2025/09-Sep/20250924_082049.000.jpg"
PathModifyDateOnly ==
    <<"2", "0", "2", "5", "/", "0", "9", "-", "S", "e", "p", "/", "2", "0", "2", "5", "0", "9", "2", "4",
      "_", "0", "8", "2", "0", "4", "9", ".", "0", "0", "0", ".", "j", "p", "g">>

\* C10: c.jpg, whose only metadata field is ModifyDate = "2025:09:24 08:20:49",
\* resolves (the recency heuristic does not reject it) to millisecond 0 and is
\* given the path 2025/09-Sep/20250924_082049.000.jpg, where it is placed.
C10_ModifyDateOnly ==
    \A i \in DOMAIN files :
        (files[i] = InC /\ run.analysis_results[i] # None) =>
            /\ run.analysis_results[i][1].success
            /\ run.analysis_results[i][1].exif_data # None
            /\ run.analysis_results[i][1].exif_data[1].timestamp = DateTime(2025, 9, 24, 8, 20, 49)
            /\ run.analysis_results[i][1].exif_data[1].milliseconds = 0
            /\ run.analysis_results[i][1].new_filename = Some(PathModifyDateOnly)
            /\ (pc = "done" /\ Placed(i)) => Destination(i) = Some(PathJoin(output_dir, PathModifyDateOnly))

\* c.jpg was placed at /o/2025/09-Sep/20250924_082049.000.jpg
C10_Witness ==
    /\ pc = "done"
    /\ \E i \in DOMAIN files :
           /\ files[i] = InC
           /\ Placed(i)
           /\ Destination(i) = Some(PathJoin(output_dir, PathModifyDateOnly))
           /\ PathJoin(output_dir, PathModifyDateOnly) \in DOMAIN run.fs

\* C13 (as stated): an input that is a symbolic link is never analysed (it gets no
\* timestamp and no name), never hashed and never relocated, and the report holds
\* for it a skipped, non-fatal result (success, not renamed) with a note that it
\* is a symlink.
C13_SymlinkSkippedAndReported ==
    \A i \in DOMAIN files :
        is_symlink(run.fs0, files[i]) =>
            /\ run.analysis_results[i] # None =>
                   (run.analysis_results[i][1].exif_data = None /\ run.analysis_results[i][1].new_filename = None)
            /\ files[i] \notin run.to_hash \cup DOMAIN run.hash_index
            /\ files[i] \in DOMAIN run.fs /\ run.fs[files[i]] = run.fs0[files[i]]
            /\ pc = "done" =>
                   \E k \in ResultsFor(run, files[i]) :
                       /\ Report(run)[k].success
                       /\ ~Report(run)[k].renamed
                       /\ Report(run)[k].error = Some("Skipped symlink - cannot process symbolic links")

\* C14 (as stated): with a mode string other than move, copy or symlink the call
\* fails before it does anything: no file is ever analysed, no file or directory
\* is ever created or changed, and no per-file result is ever reported.
C14_InvalidModeFailsFirst ==
    run_mode \notin {"move", "copy", "symlink"} =>
        /\ \A i \in DOMAIN files : run.analysis_results[i] = None
        /\ run.fs = run.fs0
        /\ run.dirs = run.dirs0
        /\ run.all_results = None

PlacementStep ==
    \/ run'.fs # run.fs
    \/ run'.dirs # run.dirs
    \/ \E d \in DOMAIN run.pos \cap DOMAIN run'.pos : run'.pos[d] # run.pos[d]

\* C22: the phase barrier.  A placement step is taken only when every input has
\* its analysis result and no path is left to hash, it leaves the analysis
\* results alone, and no step of Phase 2 writes the hash index.
C22_PhaseBarrier ==
    [][/\ PlacementStep =>
              /\ \A i \in DOMAIN files : run.analysis_results[i] # None
              /\ run.to_hash = {}
              /\ run'.analysis_results = run.analysis_results
       /\ (pc = "rename" \/ PlacementStep) => run'.hash_index = run.hash_index]_vars

\* C22 witness: in a batch of two files with a hash index of two paths, a file
\* has been through its placement
C22_Witness ==
    /\ pc = "rename"
    /\ Len(files) = 2
    /\ Cardinality(DOMAIN run.hash_index) = 2
    /\ \E d \in DOMAIN run.pos : run.pos[d] > 0
    /\ run.fs # run.fs0

\* the inputs that resolved to a timestamp of bucket d, in the order of the input list
InputsOfBucket(d) ==
    LET InBucket(file_path) ==
            \E i \in DOMAIN files :
                files[i] = file_path /\ Resolved(i) /\ target_dir(run.analysis_results[i][1].exif_data[1]) = d
    IN  SelectSeq(files, InBucket)

\* the buckets once they are formed: one list per bucket, holding the inputs of
\* the bucket in input order; the results of a bucket are those of the first
\* pos files of its list, in that order; a bucket that has not started has an
\* empty claimed list
BucketsInOrder ==
    \A d \in DOMAIN run.grouped_results :
        /\ [k \in DOMAIN run.grouped_results[d] |-> run.grouped_results[d][k].file_path] = InputsOfBucket(d)
        /\ Len(run.group_results[d]) = run.pos[d]
        /\ \A k \in DOMAIN run.group_results[d] : run.group_results[d][k].file_path = run.grouped_results[d][k].file_path
        /\ run.pos[d] = 0 => run.existing_files[d] = <<>>

\* a step places at most one file, the next one of one bucket, and leaves the
\* progress, the claimed list and the results of every other bucket alone
OneFileOfOneBucket ==
    \A d \in DOMAIN run.pos \cap DOMAIN run'.pos :
        /\ run'.pos[d] \in {run.pos[d], run.pos[d] + 1}
        /\ run'.pos[d] # run.pos[d] =>
               \A e \in DOMAIN run.pos \ {d} :
                   /\ run'.pos[e] = run.pos[e]
                   /\ run'.existing_files[e] = run.existing_files[e]
                   /\ run'.group_results[e] = run.group_results[e]

\* C23: the files of one year/month bucket are totally ordered: a bucket has one
\* list and one worker, its files are placed one after another in the order of
\* the input list, never two of them in one step, and its claimed list starts
\* empty and is written by no step of another bucket.
C23_BucketTotalOrder == []BucketsInOrder /\ [][OneFileOfOneBucket]_vars

\* C23 witness: the two files of one bucket were placed, a.jpg before b.JPG as
\* in the input list
C23_Witness ==
    /\ pc = "done"
    /\ files = <<InA, InB>>
    /\ \E d \in DOMAIN run.group_results :
           /\ Len(run.group_results[d]) = 2
           /\ run.group_results[d][1].file_path = InA /\ run.group_results[d][1].renamed
           /\ run.group_results[d][2].file_path = InB /\ run.group_results[d][2].renamed

\* the step places the next file of bucket d
PlacesNextOf(d) == pc = "rename" /\ HasWork(run, d) /\ run'.pos[d] = run.pos[d] + 1

\* C25: when a filesystem call of a placement fails (the step meets a fault of
\* the directory creation, the rename, the copy, the symlink or the delete after
\* a copy across devices), the file is reported failed; a file reported failed,
\* by a fault or by a call that fails of itself, is not renamed, has no
\* destination, has an error text, and its name is not claimed; the other files
\* of the bucket and of the other buckets are still processed, and every input
\* that resolved has its result in the report.
C25_IoFailureIsolated ==
    /\ [][\A d \in DOMAIN run.grouped_results :
              PlacesNextOf(d) =>
                  /\ run'.group_results[d][run'.pos[d]].file_path = run.grouped_results[d][run'.pos[d]].file_path
                  /\ faults' = faults + 1 => ~run'.group_results[d][run'.pos[d]].success
                  /\ ~run'.group_results[d][run'.pos[d]].success =>
                         /\ ~run'.group_results[d][run'.pos[d]].renamed
                         /\ run'.group_results[d][run'.pos[d]].new_path = None
                         /\ run'.group_results[d][run'.pos[d]].error # None
                         /\ run'.existing_files[d] = run.existing_files[d]]_vars
    /\ [](pc = "done" => \A i \in DOMAIN files : Resolved(i) => Cardinality(ResultsFor(run, files[i])) = 1)

\* C25 witness: the placement of a.jpg failed, and b.JPG, the next file of the
\* bucket, was placed at the name a.jpg did not claim
C25_Witness ==
    /\ pc = "done"
    /\ faults = 1
    /\ files = <<InA, InB>>
    /\ Len(Report(run)) = 2
    /\ ~Report(run)[1].success /\ Report(run)[1].file_path = InA
    /\ Report(run)[2].renamed /\ Report(run)[2].new_path = Some(InO)

\* the results of bucket d that are marked renamed, in placement order
RenamedOf(d) ==
    LET IsRenamed(res) == res.renamed
    IN  SelectSeq(run.group_results[d], IsRenamed)

\* C26: at every point of the processing of a bucket, its claimed list is the
\* sequence, in placement order, of the final relative paths of the files of the
\* bucket marked renamed so far; it holds no name twice and no name of a skipped
\* or failed file.
C26_ClaimedIsRenamedSoFar ==
    \A d \in DOMAIN run.group_results :
        /\ Len(run.existing_files[d]) = Len(RenamedOf(d))
        /\ \A k \in DOMAIN RenamedOf(d) :
               RenamedOf(d)[k].new_path = Some(PathJoin(output_dir, run.existing_files[d][k]))
        /\ \A j, k \in DOMAIN run.existing_files[d] : j # k => run.existing_files[d][j] # run.existing_files[d][k]

\* C26 witness: of the two files of a bucket the first was skipped or failed and
\* the second renamed, and the claimed list holds the name of the second alone
C26_Witness ==
    /\ pc = "rename"
    /\ \E d \in DOMAIN run.group_results :
           /\ Len(run.group_results[d]) = 2
           /\ ~run.group_results[d][1].renamed
           /\ run.group_results[d][2].renamed
           /\ run.existing_files[d] = <<SubSeq(InO, Len(output_dir) + 2, Len(InO))>>

\* the next file of bucket d
NextFile(d) == run.grouped_results[d][run.pos[d] + 1]

\* the final target path of the next file of bucket d: the output directory and
\* the name generated against the claimed list of the bucket
NextTarget(d) ==
    PathJoin(output_dir, generate_filename(NextFile(d).exif_data[1].timestamp, NextFile(d).exif_data[1].milliseconds,
                                           get_file_extension(NextFile(d).file_path), run.existing_files[d]))

\* the final target of the next file of bucket d exists, and the hashes of the
\* source and of the target differ or one of them is not in the index
TargetExistsNoMatch(d) ==
    /\ exists(run.fs, NextTarget(d))
    /\ \/ NextFile(d).file_path \notin DOMAIN run.hash_index
       \/ NextTarget(d) \notin DOMAIN run.hash_index
       \/ run.hash_index[NextFile(d).file_path] # run.hash_index[NextTarget(d)]

\* C28: a file whose final target exists on disk while the hashes of the source
\* and of the target differ, or one of them is missing from the index, is not
\* treated as a duplicate and not skipped in silence: it is placed (renamed, to
\* that target), or reported failed with an error text, or, its target being
\* itself, reported as needing no rename; with a source that is there, a mode
\* that moves or copies and no fault it is placed and the target holds its bytes.
C28_NoMatchIsPlaced ==
    [][\A d \in DOMAIN run.grouped_results :
           (PlacesNextOf(d) /\ TargetExistsNoMatch(d)) =>
               /\ run'.group_results[d][run'.pos[d]].error # Some("Content duplicate")
               /\ \/ /\ run'.group_results[d][run'.pos[d]].renamed
                     /\ run'.group_results[d][run'.pos[d]].new_path = Some(NextTarget(d))
                  \/ /\ ~run'.group_results[d][run'.pos[d]].success
                     /\ run'.group_results[d][run'.pos[d]].error # None
                  \/ /\ NextTarget(d) = NextFile(d).file_path
                     /\ run'.group_results[d][run'.pos[d]].error = Some("No rename needed")
               /\ (/\ faults' = faults
                   /\ run_mode \in {"move", "copy"}
                   /\ exists(run.fs, NextFile(d).file_path)
                   /\ NextTarget(d) # NextFile(d).file_path) =>
                      /\ run'.group_results[d][run'.pos[d]].renamed
                      /\ ReadContent(run'.fs, NextTarget(d)) = ReadContent(run.fs, NextFile(d).file_path)]_vars

\* C28 witness: b.JPG, whose target held other bytes (a copy of a.jpg) so that the
\* two hashes of the index differ, was placed at that target
C28_Witness ==
    /\ pc = "done"
    /\ files = <<InB>>
    /\ {InB, InO} \subseteq DOMAIN run.hash_index
    /\ run.hash_index[InB] # run.hash_index[InO]
    /\ Report(run)[1].renamed
    /\ Report(run)[1].new_path = Some(InO)
    /\ ReadContent(run.fs, InO) = "img_b"

\* a hash computation of the gate ends
HashingStep == pc = "hash" /\ run'.to_hash # run.to_hash

\* the computation of one scheduled path ends: when it succeeded the path has
\* its digest in the index, when it failed the path has no entry, and every entry
\* made before is kept
OneInsertion ==
    \E file_path \in run.to_hash :
        /\ run'.to_hash = run.to_hash \ {file_path}
        /\ file_path \notin DOMAIN run.hash_index
        /\ \A q \in DOMAIN run.hash_index : q \in DOMAIN run'.hash_index /\ run'.hash_index[q] = run.hash_index[q]
        /\ IF faults' = faults
           THEN run'.hash_index = With(run.hash_index, file_path, FmtHex16(Xxh3Digest(ReadContent(run.fs0, file_path))))
           ELSE run'.hash_index = run.hash_index

\* the gate ends: the index holds the digest of every scheduled path but those
\* whose computation failed, one for each failure, and nothing else
IndexAtGateEnd ==
    \E scheduled \in {files_to_hash(Analysed(run), run.fs0)} :
        /\ DOMAIN run.hash_index \subseteq scheduled
        /\ Cardinality(scheduled \ DOMAIN run.hash_index) = faults
        /\ \A q \in DOMAIN run.hash_index : run.hash_index[q] = FmtHex16(Xxh3Digest(ReadContent(run.fs0, q)))

UnderOutputDir(path) ==
    Len(path) > Len(output_dir) + 1 /\ SubSeq(path, 1, Len(output_dir) + 1) = output_dir \o <<"/">>

\* no step replaces the content of a file that exists by other content
NoContentReplaced ==
    \A path \in DOMAIN run.fs \cap DOMAIN run'.fs :
        (~is_symlink(run.fs, path) /\ ~is_symlink(run'.fs, path)) => run'.fs[path].content = run.fs[path].content

\* the files the output directory held before the run, the inputs excepted, are
\* there with their content
OutputFilesKept ==
    \A path \in DOMAIN run.fs0 :
        (UnderOutputDir(path) /\ \A i \in DOMAIN files : Absolute(files[i]) # path) =>
            path \in DOMAIN run.fs /\ run.fs[path] = run.fs0[path]

\* C37 (as stated): in move and copy mode no placement writes to a path at which
\* a file with other content exists, and every file that was under the output
\* directory before the run and is not an input is there, unchanged, at every
\* moment of the run and after it.
C37_NoOverwrite ==
    /\ [][(run_mode = "move" \/ run_mode = "copy") => NoContentReplaced]_vars
    /\ [](run_mode \in {"move", "copy"} => OutputFilesKept)

\* C38 (as stated): when the batch ends, the new path of every result marked
\* renamed exists and holds the content its source file had when the batch
\* began, and the source of every result reported as skipped (success, not
\* renamed) is still at its path as it was.
C38_ReportIsTrue ==
    pc = "done" =>
        \A k \in DOMAIN Report(run) :
            /\ Report(run)[k].renamed =>
                   /\ Report(run)[k].new_path # None
                   /\ exists(run.fs, Report(run)[k].new_path[1])
                   /\ ReadContent(run.fs, Report(run)[k].new_path[1]) = ReadContent(run.fs0, Report(run)[k].file_path)
            /\ (Report(run)[k].success /\ ~Report(run)[k].renamed) =>
                   /\ Absolute(Report(run)[k].file_path) \in DOMAIN run.fs
                   /\ run.fs[Absolute(Report(run)[k].file_path)] = run.fs0[Absolute(Report(run)[k].file_path)]

(***************************************************************************)
(* Claims about paths (checked under SpecPaths)                            *)
(***************************************************************************)
\* input i was analysed with success and has a provisional (unsuffixed) name
HasProvisionalTarget(i) ==
    /\ run.analysis_results[i] # None
    /\ run.analysis_results[i][1].success
    /\ run.analysis_results[i][1].exif_data # None
    /\ run.analysis_results[i][1].new_filename # None

ProvisionalTarget(i) == PathJoin(output_dir, run.analysis_results[i][1].new_filename[1])

\* the provisional target of input i exists on disk when the gate runs
TargetExistsAtGate(i) == HasProvisionalTarget(i) /\ exists(run.fs0, ProvisionalTarget(i))

\* the paths a hash is, or is about to be, computed for
HashedPaths == run.to_hash \cup DOMAIN run.hash_index

\* a hash is computed only for the source of an input whose provisional target
\* exists, or for that existing target
HashedOnlyForCollisions ==
    \A path \in HashedPaths :
        \E i \in DOMAIN files : TargetExistsAtGate(i) /\ path \in {files[i], ProvisionalTarget(i)}

\* when no provisional target exists, nothing is hashed and the index is empty
NoCollisionNoIndex == (\A i \in DOMAIN files : ~TargetExistsAtGate(i)) => (HashedPaths = {} /\ run.hash_index = <<>>)

\* C15 as stated: hashes are computed only for the sources of inputs whose
\* provisional target exists and for those targets; an input whose provisional
\* target does not exist is never hashed; without an existing provisional target
\* the index is empty.
C15_Original ==
    pc # "analyze" =>
        /\ HashedOnlyForCollisions
        /\ \A i \in DOMAIN files : (HasProvisionalTarget(i) /\ ~TargetExistsAtGate(i)) => files[i] \notin HashedPaths
        /\ NoCollisionNoIndex

\* C15 (amended): as stated, except that an input whose provisional target does
\* not exist is hashed when, and only when, it is itself the existing provisional
\* target of another input.
C15_SelectiveHashing ==
    pc # "analyze" =>
        /\ HashedOnlyForCollisions
        /\ \A i \in DOMAIN files :
               (HasProvisionalTarget(i) /\ ~TargetExistsAtGate(i) /\ files[i] \in HashedPaths) =>
                   \E j \in DOMAIN files : j # i /\ TargetExistsAtGate(j) /\ files[i] = ProvisionalTarget(j)
        /\ NoCollisionNoIndex

\* C15 witness: a.jpg, whose provisional target exists, and r.jpg, whose target
\* does not, went through the gate: a.jpg and its target are hashed, r.jpg is not
C15_Witness ==
    /\ pc = "rename"
    /\ files = <<InA, InR>>
    /\ TargetExistsAtGate(1) /\ HasProvisionalTarget(2) /\ ~TargetExistsAtGate(2)
    /\ DOMAIN run.hash_index = {InA, InO}

\* C19 (as stated): in symlink mode every placed input has at its destination a
\* symbolic link whose target is the absolute path of the source, also for an
\* input given by a relative path, and the link leads to the source file.
C19_SymlinkToAbsoluteSource ==
    (pc = "done" /\ run_mode = "symlink") =>
        \A i \in DOMAIN files :
            Placed(i) =>
                /\ is_symlink(run.fs, Destination(i)[1])
                /\ run.fs[Destination(i)[1]].target = Absolute(files[i])
                /\ Resolve(run.fs, Destination(i)[1]) = Some(Absolute(files[i]))

\* C20 (as stated): in copy mode every input path that exists before the batch
\* exists with its content at every moment of the run and after it, also when it
\* lies in the output directory.
C20_CopyLeavesInputsIntact ==
    run_mode = "copy" =>
        \A i \in DOMAIN files :
            Absolute(files[i]) \in DOMAIN run.fs0 =>
                /\ Absolute(files[i]) \in DOMAIN run.fs
                /\ run.fs[Absolute(files[i])] = run.fs0[Absolute(files[i])]


\* C27 (as stated): a file whose final target path is its source path is marked
\* skipped-noop (success, not renamed, the diagnostic "No rename needed"), not
\* skipped-duplicate, and no file or directory is changed for it.
C27_InPlaceIsNoop ==
    [][\A d \in DOMAIN run.grouped_results :
           (PlacesNextOf(d) /\ NextTarget(d) = NextFile(d).file_path) =>
               /\ run'.group_results[d][run'.pos[d]].success
               /\ ~run'.group_results[d][run'.pos[d]].renamed
               /\ run'.group_results[d][run'.pos[d]].error = Some("No rename needed")
               /\ run'.fs = run.fs
               /\ run'.dirs = run.dirs]_vars

\* the groups of the run in one fixed order
FixedGroupOrder ==
    CHOOSE order \in [1..Cardinality(DOMAIN run.grouped_results) -> DOMAIN run.grouped_results] :
        \A i, j \in DOMAIN order : i # j => order[i] # order[j]

\* the run after the workers of the groups have run one after the other, each to
\* its end, in the given order, without fault
RECURSIVE OneGroupAfterTheOther(_, _)
OneGroupAfterTheOther(r, order) ==
    IF order = <<>> THEN r
    ELSE IF HasWork(r, Head(order)) THEN OneGroupAfterTheOther(RunPlace(r, Head(order), run_mode, "none"), order)
    ELSE OneGroupAfterTheOther(r, Tail(order))

\* the run as Phase 2 found it: grouped, nothing placed, the filesystem of the call
BeforePlacement(r) ==
    [r EXCEPT !.pos = [d \in DOMAIN @ |-> 0],
              !.existing_files = [d \in DOMAIN @ |-> <<>>],
              !.group_results = [d \in DOMAIN @ |-> <<>>],
              !.fs = r.fs0,
              !.dirs = r.dirs0]

\* C36 (as stated): the results of the groups and the final filesystem of a batch
\* without fault are those of the schedule that runs the groups one after the
\* other in a fixed order, whatever the interleaving of the workers, also when an
\* input of one group lies at the target path of a file of another group.
C36_ScheduleIndependent ==
    (pc = "done" /\ faults = 0) =>
        \E sequential \in {OneGroupAfterTheOther(BeforePlacement(run), FixedGroupOrder)} :
            /\ run.fs = sequential.fs
            /\ run.group_results = sequential.group_results

(***************************************************************************)
(* Claims about ties and a second call (checked under SpecRerun)           *)
(***************************************************************************)
\* "/o/2025/09-Sep/20250924_082049.680-3.jpg"
InO3 == PathJoin(output_dir, path_with_suffix(DateTime(2025, 9, 24, 8, 20, 49), 680, <<"j", "p", "g">>, 3))

\* the inputs with the instant, millisecond and extension of input i
TiedWith(i) == {j \in DOMAIN files : Resolved(j) /\ NameKey(j) = NameKey(i)}

\* the n-th name of the key of input i: unsuffixed for n = 1, with -n otherwise
NthName(i, n) ==
    PathJoin(output_dir,
             IF n = 1 THEN full_path(NameKey(i)[1], NameKey(i)[2], NameKey(i)[3])
             ELSE path_with_suffix(NameKey(i)[1], NameKey(i)[2], NameKey(i)[3], n))

\* C39: whatever the schedule, when the k inputs of one instant, millisecond and
\* extension are all placed and none of their k names was on disk before the
\* call, the i-th of them in input order is at the unsuffixed path for i = 1 and
\* at the path with suffix -i otherwise.
C39_SuffixFollowsInputOrder ==
    pc = "done" =>
        \A i \in DOMAIN files :
            (/\ Resolved(i)
             /\ \A j \in TiedWith(i) : Placed(j)
             /\ \A n \in 1..Cardinality(TiedWith(i)) : ~exists(run.fs0, NthName(i, n)))
                => Destination(i) = Some(NthName(i, Cardinality({j \in TiedWith(i) : j <= i})))

\* C39 witness: b.JPG, a.jpg and t.jpg, of one instant, were given in this order
\* together and placed at the unsuffixed name, at -2 and at -3
C39_Witness ==
    /\ pc = "done"
    /\ files = <<InB, InA, InT>>
    /\ ~exists(run.fs0, InO)
    /\ \A i \in 1..3 : Placed(i)
    /\ Destination(1) = Some(InO)
    /\ Destination(2) = Some(InO2)
    /\ Destination(3) = Some(InO3)
    /\ ReadContent(run.fs, InO) = "img_b"

\* the call is the second one: the output directory holds the files of the first
SecondCall == \E path \in DOMAIN run.fs0 : UnderOutputDir(path)

\* the output directory holds the files it held before the call, as they were
OutputUnchanged ==
    \A path \in DOMAIN run.fs0 \cup DOMAIN run.fs :
        UnderOutputDir(path) => (path \in DOMAIN run.fs0 /\ path \in DOMAIN run.fs /\ run.fs[path] = run.fs0[path])

\* C40 (as stated): a second call in copy mode on the same input list and output
\* directory, without fault, changes nothing under the output directory, and
\* every input, those placed under a -N name by the first call included, is
\* reported as a skipped duplicate.
C40_RerunIdempotent ==
    (pc = "done" /\ SecondCall /\ faults = 0) =>
        /\ OutputUnchanged
        /\ \A i \in DOMAIN files :
               /\ ResultsFor(run, files[i]) # {}
               /\ \A k \in ResultsFor(run, files[i]) :
                      /\ Report(run)[k].success
                      /\ ~Report(run)[k].renamed
                      /\ Report(run)[k].error = Some("Content duplicate")

(***************************************************************************)
(* Claims about the filename generator (checked under SpecNaming)          *)
(***************************************************************************)
\* exactly w decimal digits of n, most significant first
RECURSIVE FixedDigits(_, _)
FixedDigits(n, w) == IF w = 0 THEN <<>> ELSE FixedDigits(n \div 10, w - 1) \o <<DigitChars[(n % 10) + 1]>>

EnglishMonthAbbrev ==
    << <<"J", "a", "n">>, <<"F", "e", "b">>, <<"M", "a", "r">>, <<"A", "p", "r">>,
       <<"M", "a", "y">>, <<"J", "u", "n">>, <<"J", "u", "l">>, <<"A", "u", "g">>,
       <<"S", "e", "p">>, <<"O", "c", "t">>, <<"N", "o", "v">>, <<"D", "e", "c">> >>

\* YYYY/MM-Mon/YYYYMMDD_HHMMSS.mmm[-N].ext, N = 0 standing for "no suffix"
CanonicalForm(d, ms, ext, N) ==
    FixedDigits(d.year, 4) \o <<"/">> \o FixedDigits(d.month, 2) \o <<"-">> \o EnglishMonthAbbrev[d.month] \o <<"/">>
        \o FixedDigits(d.year, 4) \o FixedDigits(d.month, 2) \o FixedDigits(d.day, 2) \o <<"_">>
        \o FixedDigits(d.hour, 2) \o FixedDigits(d.minute, 2) \o FixedDigits(d.second, 2)
        \o <<".">> \o FixedDigits(ms, 3)
        \o (IF N = 0 THEN <<>> ELSE <<"-">> \o NatDigits(N))
        \o <<".">> \o ext

\* C6: every generated path has the form YYYY/MM-Mon/YYYYMMDD_HHMMSS.mmm[-N].ext
\* with a 4-digit year, 2-digit month, day, hour, minute and second, the English
\* month abbreviation, a 3-digit millisecond field, and a suffix -N (N >= 2) only
\* when the unsuffixed path is in the claimed list.
C6_CanonicalPathFormat ==
    final_path # None =>
        \/ final_path[1] = CanonicalForm(dt, milliseconds, extension, 0)
        \/ /\ CanonicalForm(dt, milliseconds, extension, 0) \in Range(existing_files)
           /\ \E N \in 2..(Len(existing_files) + 2) : final_path[1] = CanonicalForm(dt, milliseconds, extension, N)

\* C7: the generated path is not in the claimed list, and when the unsuffixed path
\* is claimed its suffix is the least n >= 2 whose suffixed path is not claimed.
C7_NextFreeSuffix ==
    final_path # None =>
        /\ final_path[1] \notin Range(existing_files)
        /\ full_path(dt, milliseconds, extension) \in Range(existing_files) =>
              \E n \in 2..(Len(existing_files) + 2) :
                  /\ final_path[1] = path_with_suffix(dt, milliseconds, extension, n)
                  /\ \A k \in 2..(n - 1) : path_with_suffix(dt, milliseconds, extension, k) \in Range(existing_files)

\* C7 witness: the unsuffixed path and -2 are both claimed and -3 is returned
C7_Witness ==
    /\ final_path # None
    /\ full_path(dt, milliseconds, extension) \in Range(existing_files)
    /\ path_with_suffix(dt, milliseconds, extension, 2) \in Range(existing_files)
    /\ final_path[1] = path_with_suffix(dt, milliseconds, extension, 3)

\* C24 (as stated): for every timestamp, the final target path of a file lies in
\* the directory that is the key of the file's bucket, output_dir/YYYY/MM-Mon, so
\* that the paths of two buckets never meet.
C24_TargetInsideBucket ==
    final_path # None =>
        PathParent(PathJoin(output_dir, final_path[1])) = target_dir([timestamp |-> dt, milliseconds |-> milliseconds])

(***************************************************************************)
(* Claims about the timestamp resolver (checked under SpecResolve)         *)
(***************************************************************************)
PreCombinedTags == <<F_SubSecCreateDate, F_SubSecDateTimeOriginal, F_SubSecModifyDate>>

BaseFractionTags ==
    << <<F_DateTimeOriginal, F_SubSecTimeOriginal>>, <<F_ModifyDate, F_SubSecTime>>,
       <<F_DateTimeDigitized, F_SubSecTimeDigitized>> >>

HasVideoKey(md) == F_MediaCreateDate \in DOMAIN md \/ F_MediaModifyDate \in DOMAIN md

\* the tag is in the bag and its value parses
Parses(md, tag) == tag \in DOMAIN md /\ parse_timestamp_with_subseconds(md[tag]).ok

\* both tags of the pair are in the bag and base "." fraction-padded-to-3 parses
PairParses(md, pair) ==
    /\ pair[1] \in DOMAIN md
    /\ pair[2] \in DOMAIN md
    /\ parse_timestamp_with_subseconds(md[pair[1]] \o <<".">> \o md[pair[2]] \o Repeat("0", 3 - Len(md[pair[2]]))).ok

\* C8 as stated: a bag that holds a pre-combined subsecond tag resolves to the
\* value of a pre-combined tag of the bag.
C8_Original ==
    (resolved # Pending /\ \E i \in 1..3 : PreCombinedTags[i] \in DOMAIN metadata) =>
        \E i \in 1..3 :
            /\ PreCombinedTags[i] \in DOMAIN metadata
            /\ resolved = parse_timestamp_with_subseconds(metadata[PreCombinedTags[i]])
            /\ resolved.ok

\* C8 (amended): a photo bag (no video key) in which a pre-combined subsecond tag
\* parses resolves to the value of the first such tag, in the order SubSecCreateDate,
\* SubSecDateTimeOriginal, SubSecModifyDate, whatever base+fraction pairs it holds.
C8_PreCombinedPreferred ==
    (resolved # Pending /\ ~HasVideoKey(metadata)) =>
        \A i \in 1..3 :
            (Parses(metadata, PreCombinedTags[i]) /\ \A j \in 1..(i - 1) : ~Parses(metadata, PreCombinedTags[j]))
                => resolved = parse_timestamp_with_subseconds(metadata[PreCombinedTags[i]])

\* C8 witness: a photo bag with a parseable pre-combined tag and a parseable
\* base+fraction pair that gives another instant; the pre-combined value is returned.
C8_Witness ==
    /\ resolved # Pending
    /\ ~HasVideoKey(metadata)
    /\ Parses(metadata, F_SubSecCreateDate)
    /\ PairParses(metadata, BaseFractionTags[1])
    /\ resolved = parse_timestamp_with_subseconds(metadata[F_SubSecCreateDate])
    /\ resolved # parse_timestamp_with_subseconds(metadata[F_DateTimeOriginal] \o <<".">> \o metadata[F_SubSecTimeOriginal])

\* the first three digits of a digit string, zeros standing for the missing ones
ExpectedMillis(fraction) ==
    LET digit(i) == IF i <= Len(fraction) THEN DigitVal(fraction[i]) ELSE 0
    IN  100 * digit(1) + 10 * digit(2) + digit(3)

\* the pair is the winning candidate: a photo bag, no pre-combined tag parses, no
\* earlier pair parses, and this pair parses
PairWins(md, i) ==
    /\ ~HasVideoKey(md)
    /\ \A j \in 1..3 : ~Parses(md, PreCombinedTags[j])
    /\ \A j \in 1..(i - 1) : ~PairParses(md, BaseFractionTags[j])
    /\ PairParses(md, BaseFractionTags[i])

\* C9: when a (base, fraction) pair wins and the fraction is a digit string, the
\* resolved millisecond is the fraction right-padded with zeros to 3 digits, or
\* its first 3 digits when it is longer (no rounding).
C9_FractionPaddedOrTruncated ==
    resolved # Pending =>
        \A i \in 1..3 :
            (PairWins(metadata, i) /\ AllDigits(metadata[BaseFractionTags[i][2]]))
                => /\ resolved.ok
                   /\ resolved.ms = ExpectedMillis(metadata[BaseFractionTags[i][2]])

\* C9 witness: the pair (ModifyDate, SubSecTime) wins with the 4-digit fraction
\* 6809, which is cut to 680
C9_Witness ==
    /\ resolved # Pending
    /\ PairWins(metadata, 2)
    /\ metadata[F_SubSecTime] = <<"6", "8", "0", "9">>
    /\ resolved.ok
    /\ resolved.ms = 680

\* the value of the first tag of a list that is in the bag and parses
FirstParsing(tags, md) ==
    LET hits == {i \in DOMAIN tags : Parses(md, tags[i])}
    IN  IF hits = {} THEN Err
        ELSE parse_timestamp_with_subseconds(md[tags[CHOOSE i \in hits : \A j \in hits : i <= j]])

\* what the steps of the photo list can return for a bag: the value of a
\* pre-combined tag, of a base+fraction pair or of a base tag, when it parses
PhotoCandidates(md) ==
    {parse_timestamp_with_subseconds(md[t]) : t \in {u \in Range(PreCombinedTags) \cup Range(fallback_fields) : Parses(md, u)}}
        \cup {parse_timestamp_with_subseconds(combined_timestamp(md[BaseFractionTags[i][1]], md[BaseFractionTags[i][2]])) :
                i \in {j \in 1..3 : PairParses(md, BaseFractionTags[j])}}

\* C11: a bag is a video exactly when it holds MediaCreateDate or MediaModifyDate;
\* a video bag resolves to the first parsing tag of the video list and to nothing
\* else (no pre-combined tag, no base+fraction pair), and every other bag resolves
\* to a value of the photo list or fails, whatever video-only tags it holds.
C11_ClassChoosesList ==
    resolved # Pending =>
        /\ is_video(metadata) <=> HasVideoKey(metadata)
        /\ HasVideoKey(metadata) => resolved = FirstParsing(video_timestamp_fields, metadata)
        /\ ~HasVideoKey(metadata) =>
               IF PhotoCandidates(metadata) = {} THEN ~resolved.ok ELSE resolved \in PhotoCandidates(metadata)

\* C11 witness: a bag with MediaModifyDate and a parseable pre-combined tag of
\* another instant resolves to the MediaModifyDate value
C11_Witness ==
    /\ resolved # Pending
    /\ F_MediaModifyDate \in DOMAIN metadata
    /\ F_MediaCreateDate \notin DOMAIN metadata
    /\ Parses(metadata, F_SubSecCreateDate)
    /\ resolved.ok
    /\ resolved = parse_timestamp_with_subseconds(metadata[F_MediaModifyDate])
    /\ resolved # parse_timestamp_with_subseconds(metadata[F_SubSecCreateDate])

\* the bag holds a candidate of the priority list of its class that parses.  The
\* photo list is the one of the documentation of extract_best_timestamp: the
\* pre-combined tags, the base+fraction pairs, the base tags and CreateDate as the
\* last resort.
CandidateParses(md) ==
    IF HasVideoKey(md) THEN \E i \in DOMAIN video_timestamp_fields : Parses(md, video_timestamp_fields[i])
    ELSE \/ \E i \in 1..3 : Parses(md, PreCombinedTags[i]) \/ PairParses(md, BaseFractionTags[i])
         \/ \E i \in DOMAIN fallback_fields : Parses(md, fallback_fields[i])
         \/ Parses(md, F_CreateDate)

\* C12 (as stated): the resolver fails exactly when no candidate tag of the
\* priority list of the bag's class is in the bag and parses.
C12_FailsOnlyWithoutCandidate ==
    resolved # Pending => (resolved.ok <=> CandidateParses(metadata))

\* the step that resolves the drawn bag
Resolves == resolved = Pending /\ resolved' # Pending

\* the value of a tag of the bag, Err when the tag is missing
ValueOf(md, tag) == IF tag \in DOMAIN md THEN parse_timestamp_with_subseconds(md[tag]) ELSE Err

\* the value of a base+fraction pair: base "." fraction-padded-to-3, Err when a
\* tag of the pair is missing
PairValueOf(md, pair) ==
    IF pair[1] \in DOMAIN md /\ pair[2] \in DOMAIN md
    THEN parse_timestamp_with_subseconds(md[pair[1]] \o <<".">> \o md[pair[2]] \o Repeat("0", 3 - Len(md[pair[2]])))
    ELSE Err

\* the first value of a list that parsed, Err when none did
FirstOk(vals) ==
    LET hits == {i \in DOMAIN vals : vals[i].ok}
    IN  IF hits = {} THEN Err ELSE vals[CHOOSE i \in hits : \A j \in hits : i <= j]

\* a parsed value with its millisecond set to 0
WithMillisZero(v) == IF v.ok THEN Ok(v.dt, 0) ELSE v

\* the values of the candidates of the photo list in their order: the pre-combined
\* tags, the base+fraction pairs, the base tags alone
PhotoValues(md) ==
    [i \in 1..3 |-> ValueOf(md, PreCombinedTags[i])]
        \o [i \in 1..3 |-> PairValueOf(md, BaseFractionTags[i])]
        \o [i \in DOMAIN fallback_fields |-> ValueOf(md, fallback_fields[i])]

IsZeroTimestamp(s) == \A i \in DOMAIN s : s[i] \in {":", " ", "0"}

\* CreateDate is the only timestamp tag of the bag
OnlyCreateDate(md) == F_CreateDate \in DOMAIN md /\ DOMAIN md \cap TimestampFields = {F_CreateDate}

\* C32 (as stated): a photo bag in which CreateDate is the only timestamp tag
\* resolves to the value of CreateDate when its string is not all zeros once ':'
\* and spaces are removed, and fails when it is all zeros.
C32_LastResortCreateDate ==
    (resolved # Pending /\ OnlyCreateDate(metadata)) =>
        IF IsZeroTimestamp(metadata[F_CreateDate]) THEN ~resolved.ok
        ELSE resolved = parse_timestamp_with_subseconds(metadata[F_CreateDate])

\* DateTimeOriginal, CreationDate, MediaCreateDate, TrackCreateDate, Create Date,
\* MakerNotes:CreateDate, MediaModifyDate, TrackModifyDate, Modify Date,
\* MakerNotes:ModifyDate, NikonDateTime, ModifyDate
VideoOrderTags ==
    << <<"D", "a", "t", "e", "T", "i", "m", "e", "O", "r", "i", "g", "i", "n", "a", "l">>,
       <<"C", "r", "e", "a", "t", "i", "o", "n", "D", "a", "t", "e">>,
       <<"M", "e", "d", "i", "a", "C", "r", "e", "a", "t", "e", "D", "a", "t", "e">>,
       <<"T", "r", "a", "c", "k", "C", "r", "e", "a", "t", "e", "D", "a", "t", "e">>,
       <<"C", "r", "e", "a", "t", "e", " ", "D", "a", "t", "e">>,
       <<"M", "a", "k", "e", "r", "N", "o", "t", "e", "s", ":", "C", "r", "e", "a", "t", "e", "D", "a", "t", "e">>,
       <<"M", "e", "d", "i", "a", "M", "o", "d", "i", "f", "y", "D", "a", "t", "e">>,
       <<"T", "r", "a", "c", "k", "M", "o", "d", "i", "f", "y", "D", "a", "t", "e">>,
       <<"M", "o", "d", "i", "f", "y", " ", "D", "a", "t", "e">>,
       <<"M", "a", "k", "e", "r", "N", "o", "t", "e", "s", ":", "M", "o", "d", "i", "f", "y", "D", "a", "t", "e">>,
       <<"N", "i", "k", "o", "n", "D", "a", "t", "e", "T", "i", "m", "e">>,
       <<"M", "o", "d", "i", "f", "y", "D", "a", "t", "e">> >>

CandidatesPresent(md) ==
    IF HasVideoKey(md) THEN [i \in DOMAIN VideoOrderTags |-> VideoOrderTags[i] \in DOMAIN md]
    ELSE [i \in 1..3 |-> PreCombinedTags[i] \in DOMAIN md]
             \o [i \in 1..3 |-> BaseFractionTags[i][1] \in DOMAIN md /\ BaseFractionTags[i][2] \in DOMAIN md]
             \o [i \in DOMAIN fallback_fields |-> fallback_fields[i] \in DOMAIN md]

\* the values of the candidates of the list of the bag's class, in list order
CandidateValues(md) ==
    IF HasVideoKey(md) THEN [i \in DOMAIN VideoOrderTags |-> ValueOf(md, VideoOrderTags[i])]
    ELSE PhotoValues(md)

\* candidate i is present and does not parse, no candidate before it parses, and
\* a later candidate parses
FailsBeforeParsing(present, vals, i) ==
    /\ present[i]
    /\ \A j \in 1..i : ~vals[j].ok
    /\ \E j \in (i + 1)..Len(vals) : vals[j].ok

\* C34: a candidate that is present and does not parse (its date/time part or its
\* fraction) is passed over: the resolver succeeds with the value of the next
\* candidate of the list that parses; a base+fraction pair whose combination does
\* not parse falls through to the later candidates, its base tag alone included.
C34_FieldFailureFallsThrough ==
    [][Resolves =>
           \E present \in {CandidatesPresent(metadata)}, vals \in {CandidateValues(metadata)} :
               \A i \in DOMAIN vals :
                   FailsBeforeParsing(present, vals, i) =>
                       /\ resolved'.ok
                       /\ resolved' = vals[CHOOSE j \in (i + 1)..Len(vals) : vals[j].ok /\ \A k \in (i + 1)..(j - 1) : ~vals[k].ok]]_vars

\* C34 witness: a photo bag with DateTimeOriginal = "2025:09:24 08:20:49" and the
\* fraction tag SubSecTimeOriginal = "x7": the combination does not parse and the
\* bag resolves to DateTimeOriginal alone, with millisecond 0.
C34_Witness ==
    /\ resolved # Pending
    /\ DOMAIN metadata = {F_DateTimeOriginal, F_SubSecTimeOriginal}
    /\ metadata[F_SubSecTimeOriginal] = <<"x", "7">>
    /\ ~PairValueOf(metadata, BaseFractionTags[1]).ok
    /\ resolved = Ok(DateTime(2025, 9, 24, 8, 20, 49), 0)

(***************************************************************************)
(* Claims about the backend chain (checked under SpecPaths)                *)
(***************************************************************************)
\* input i has its analysis result and is no symbolic link
AnalysedFile(i) == run.analysis_results[i] # None /\ ~is_symlink(run.fs0, files[i])

\* the timestamp of an analysis result, or Err when it has none
TimestampOf(ar) ==
    IF ar.exif_data = None THEN Err ELSE Ok(ar.exif_data[1].timestamp, ar.exif_data[1].milliseconds)

\* the timestamp of the analysis result of input i
AnalysedTimestamp(i) == TimestampOf(run.analysis_results[i][1])

\* the bags the two backends return for input i, in the order of the chain; none
\* for a path that does not exist
BagsOf(i) ==
    IF ~exists(run.fs0, files[i]) THEN <<None, None>>
    ELSE <<optimal_parser_parse_file(ReadContent(run.fs0, files[i])), fast_reader_read_file(ReadContent(run.fs0, files[i]))>>

\* the timestamp the resolver gives for the bag a backend returned, Err when the
\* backend failed
ResolutionOf(bag) == IF bag = None THEN Err ELSE extract_best_timestamp(bag[1])

\* C29 as stated: the bag of a file is the one of the first backend that returns
\* a bag; no later backend is consulted, and the timestamp of the file, or its
\* failure, is the resolution of that bag.
C29_Original ==
    \A i \in DOMAIN files :
        AnalysedFile(i) =>
            AnalysedTimestamp(i) = ResolutionOf(IF BagsOf(i)[1] # None THEN BagsOf(i)[1] ELSE BagsOf(i)[2])

\* the step gives input i, which is no symbolic link, its analysis result
AnalysisStep(i) == run.analysis_results[i] = None /\ run'.analysis_results[i] # None /\ ~is_symlink(run.fs0, files[i])

\* an analysis result, once given, is never changed
AnalysisKept(i) == run.analysis_results[i] # None => run'.analysis_results[i] = run.analysis_results[i]

\* the analysis result ar of input i has the resolution of the bag of the first
\* backend that returns a bag which resolves, and is a failure when none does
FirstResolvingBag(i, ar) ==
    \E first \in {ResolutionOf(BagsOf(i)[1])} :
        IF first.ok THEN TimestampOf(ar) = first
        ELSE \E second \in {ResolutionOf(BagsOf(i)[2])} :
                 IF second.ok THEN TimestampOf(ar) = second
                 ELSE TimestampOf(ar) = Err /\ ~ar.success

\* C29 (amended): the timestamp of a file is the resolution of the bag of the
\* first backend, in the order optimal parser then fast-exif reader, that returns
\* a bag which resolves; a backend that fails or whose bag does not resolve is
\* passed over, a backend after the one that resolved is not consulted, and the
\* analysis fails when none resolves.  This holds of every analysis result when
\* it is given, and a result that is given is never changed.
C29_FirstResolvingBackend ==
    [][\A i \in DOMAIN files : AnalysisKept(i) /\ (AnalysisStep(i) => FirstResolvingBag(i, run'.analysis_results[i][1]))]_vars

\* C29 witness: f.jpg, whose first bag does not resolve, has the timestamp of its
\* second bag, and r.jpg, whose two bags resolve to different milliseconds, has
\* the timestamp of its first bag
C29_Witness ==
    /\ files = <<InF, InR>>
    /\ AnalysedFile(1) /\ AnalysedFile(2)
    /\ BagsOf(1)[1] # None /\ ~ResolutionOf(BagsOf(1)[1]).ok
    /\ AnalysedTimestamp(1) = Ok(DateTime(2024, 12, 31, 23, 59, 59), 0)
    /\ ResolutionOf(BagsOf(2)[2]) = Ok(DateTime(2025, 9, 24, 8, 20, 49), 680)
    /\ AnalysedTimestamp(2) = Ok(DateTime(2025, 9, 24, 8, 20, 49), 0)

\* the timestamps that can be read in a bag: the value of a tag, or of a base tag
\* and a fraction tag put together, when it parses
ReadableTimestamps(md) ==
    {parse_timestamp_with_subseconds(md[t]) : t \in {u \in DOMAIN md : Parses(md, u)}}
        \cup {parse_timestamp_with_subseconds(combined_timestamp(md[BaseFractionTags[k][1]], md[BaseFractionTags[k][2]])) :
                k \in {j \in 1..3 : PairParses(md, BaseFractionTags[j])}}

\* every backend fails on input i, or returns a bag in which no candidate parses
NothingResolves(i) == \A k \in 1..2 : BagsOf(i)[k] = None \/ ~CandidateParses(BagsOf(i)[k][1])

\* an input whose analysis failed enters no bucket, is not placed, and lies
\* where it was with the bytes it had
FailedStaysPut(i) ==
    (AnalysedFile(i) /\ ~run.analysis_results[i][1].success) =>
        /\ \A d \in DOMAIN run.grouped_results :
               \A k \in DOMAIN run.grouped_results[d] : run.grouped_results[d][k].file_path # files[i]
        /\ pc = "done" => ~Placed(i)
        /\ exists(run.fs0, files[i]) =>
               (Absolute(files[i]) \in DOMAIN run.fs /\ run.fs[Absolute(files[i])] = run.fs0[Absolute(files[i])])

\* the analysis result ar of input i invents nothing: when nothing resolves it
\* is a failure with an error text, no timestamp and no name, and a timestamp
\* it holds can be read in a bag a backend returned for the file
NothingInvented(i, ar) ==
    /\ NothingResolves(i) => (~ar.success /\ ar.error # None /\ ar.exif_data = None /\ ar.new_filename = None)
    /\ TimestampOf(ar) # Err =>
           \E k \in 1..2 : BagsOf(i)[k] # None /\ TimestampOf(ar) \in ReadableTimestamps(BagsOf(i)[k][1])

\* C30: no capture time is invented.  A file on which every backend fails, or in
\* whose bags no candidate parses, has a failed analysis with an error text and
\* no timestamp and no name; it enters no bucket, is not placed, and stays as it
\* was; and the timestamp of every analysis result is, when the result is given
\* and ever after, one that can be read in a bag a backend returned for the
\* file, never another instant.
C30_NoInventedTimestamp ==
    /\ [](\A i \in DOMAIN files : FailedStaysPut(i))
    /\ [][\A i \in DOMAIN files : AnalysisKept(i) /\ (AnalysisStep(i) => NothingInvented(i, run'.analysis_results[i][1]))]_vars

\* C30 witness: of g.jpg, in whose bags nothing parses, and a.jpg, the first has
\* a failed analysis and lies where it was, and the second was placed under the
\* instant of its tags
C30_Witness ==
    /\ pc = "done"
    /\ files = <<InG, InA>>
    /\ BagsOf(1)[1] # None /\ BagsOf(1)[2] # None /\ NothingResolves(1)
    /\ ~run.analysis_results[1][1].success
    /\ run.fs[InG] = run.fs0[InG]
    /\ Placed(2)
    /\ AnalysedTimestamp(2) = Ok(DateTime(2025, 9, 24, 8, 20, 49), 680)

(***************************************************************************)
(* Claims about the timestamp parser (checked under SpecParse)             *)
(***************************************************************************)
\* the string ends with +HH:MM or -HH:MM
EndsWithOffset(s) ==
    /\ Len(s) > 6
    /\ s[Len(s) - 5] \in {"+", "-"}
    /\ IsDigit(s[Len(s) - 4]) /\ IsDigit(s[Len(s) - 3])
    /\ s[Len(s) - 2] = ":"
    /\ IsDigit(s[Len(s) - 1]) /\ IsDigit(s[Len(s)])

\* the string without its last 6 characters
WithoutOffset(s) == SubSeq(s, 1, Len(s) - 6)

\* C16 (as stated): a string that ends with a timezone offset parses to what the
\* same string without the offset parses to, with or without a fraction and with
\* either date separator.
C16_OffsetDiscarded ==
    (/\ parsed # Pending
     /\ EndsWithOffset(timestamp_str)
     /\ parse_timestamp_with_subseconds(WithoutOffset(timestamp_str)).ok)
        => parsed = parse_timestamp_with_subseconds(WithoutOffset(timestamp_str))

\* the string has a T between a 10-character date and the time
HasTSeparator(s) == Len(s) > 11 /\ s[11] = "T"

\* the string with a space in place of the T
WithSpaceSeparator(s) == [s EXCEPT ![11] = " "]

\* C17 (as stated): a string with a literal T between the date and the time
\* parses to what the same string with a space in place of the T parses to.
C17_TSeparatorAccepted ==
    (/\ parsed # Pending
     /\ HasTSeparator(timestamp_str)
     /\ parse_timestamp_with_subseconds(WithSpaceSeparator(timestamp_str)).ok)
        => parsed = parse_timestamp_with_subseconds(WithSpaceSeparator(timestamp_str))

\* C18: every successful parse gives a millisecond value in 0..999, whatever the
\* fraction: of any length, empty, quoted, or followed by a timezone sign.
C18_MillisecondRange ==
    (parsed # Pending /\ parsed.ok) => parsed.ms \in 0..999

\* C18 witness: a string with the 4-digit fraction 6809 and an offset parsed, to
\* the millisecond 680
C18_Witness ==
    /\ parsed # Pending
    /\ parsed.ok
    /\ ContainsStr(timestamp_str, <<".", "6", "8", "0", "9", "-">>)
    /\ parsed.ms = 680

====
